---- MODULE Spec2Model ----
(***************************************************************************)
(* Feedback-driven context augmentation loop of the agent samples:         *)
(*   feedback_store.py          FeedbackStore (Cosmos DB container)         *)
(*   feedback_agent.py          FeedbackAwareAgent                          *)
(*   rl_preference_learning.py  PreferenceLearningProvider                  *)
(*                                                                         *)
(* Text is modelled as a sequence of tokens; the empty string is <<>>.     *)
(* An ISO-8601 timestamp is the sequence of its fixed-width fields, the    *)
(* fractional field being absent when it is zero, as datetime.isoformat()  *)
(* prints it.  An Optional value is a sequence of length 0 (None) or 1.    *)
(***************************************************************************)
EXTENDS Integers, Sequences, FiniteSets, TLC

VARIABLES
    container,      \* the Cosmos DB container: the documents, in insertion order
    clockBase,      \* where the wall clock stands when the run starts
    nstores,        \* number of store_feedback calls made in this run
    lastStore,      \* the arguments and clock reading of the latest store_feedback call
                    \* that returned
    writes,         \* number of create_item calls made in this run
    storeResult,    \* how the latest store_feedback call ended
    tieOrder,       \* the order in which the database returns documents of equal
                    \* timestamp to the read operations: not specified by the
                    \* query, the same for the same query on the same documents
    lastRead,       \* the latest read operation made on the store and its result
    inflight,       \* the document each session has built in a store_feedback call
                    \* that has not reached create_item yet
    thread,         \* FeedbackAwareAgent.thread of each agent: 0 is None, else the handle
    nthreads,       \* number of threads agent.get_new_thread() has created
    pc,             \* where each agent stands in query()
    pending,        \* the locals of each agent's query() in progress, and how many
                    \* records (helpful records) of its user were stored before it
    forwarded,      \* the latest call of agent.run: who made it, and with what
    reply,          \* how the latest query() that ended did end
    nasks,          \* number of query() calls started in this run
    nruns,          \* number of agent.run calls made in this run
    preferences,    \* PreferenceLearningProvider.preferences
    lastCall,       \* the latest call of the provider and how it ended
    providerContext,\* the Context the latest invoking() returned
    expression,     \* the argument of a call of the calculate tool
    calcReturn,     \* what that call returned, once it has
    routineMessage, \* morning routine: the message on its way to an executor
    routineCalls,   \* morning routine: the agent.run calls made, and how each ended
    routineOutputs, \* morning routine: what ctx.yield_output was given
    travelShared,   \* travel assistant: the shared state under "travel_plan"
    travelMessage,  \* travel assistant: the message on its way to an executor
    travelOutputs,  \* travel assistant: what ctx.yield_output was given
    travelRaised,   \* travel assistant: the exception that left a handler, if one did
    missingKey,     \* what the workflow library does when get_shared_state is asked
                    \* for a key nothing was stored under: it gives None or raises
    user_info,      \* UserInfoMemory.user_info
    extracting,     \* the request each caller's invoked() has in get_response
    extracted,      \* what the get_response calls of invoked() have come to, in order
    ninvoked,       \* number of invoked() calls started on the UserInfoMemory
    memoryContext,  \* the Context the latest UserInfoMemory.invoking() returned
    complianceRequest,  \* the request POSTed to /api/verify_compliance
    complianceResponse, \* what verify_compliance returned for it, once it has
    loanCustomer,   \* loan workflow: the customer process_customer is called with
    loanModel,      \* loan workflow: what agent.run comes to for that customer
    loanPc,         \* loan workflow: where each call of process_customer stands
    riskReply,      \* loan workflow: how the POST to /api/assess_risk ended
    complianceReply,\* loan workflow: how the POST to /api/verify_compliance ended
    risk_data,      \* loan workflow: the local risk_data of each call
    compliance_data,\* loan workflow: the local compliance_data of each call
    loanPrompt,     \* loan workflow: the prompt each call gave to agent.run
    loanReturn,     \* loan workflow: the decision each call returned
    loanRaised,     \* loan workflow: the exception that left each call, if one did
    fanTask,        \* fan-out workflow: the Task object every message refers to
    fanInbox,       \* fan-out workflow: the messages waiting for each executor
    fanHandling     \* fan-out workflow: the executors whose handler is at its send

storeVars ==
    <<container, clockBase, nstores, lastStore, writes, storeResult, tieOrder, lastRead,
      inflight>>
agentVars == <<thread, nthreads, pc, pending, forwarded, reply, nasks, nruns>>
policyVars == <<preferences, lastCall, providerContext>>
calcVars == <<expression, calcReturn>>
routineVars == <<routineMessage, routineCalls, routineOutputs>>
travelVars == <<travelShared, travelMessage, travelOutputs, travelRaised, missingKey>>
memoryVars == <<user_info, extracting, extracted, ninvoked, memoryContext>>
complianceVars == <<complianceRequest, complianceResponse>>
loanVars ==
    <<loanCustomer, loanModel, loanPc, riskReply, complianceReply, risk_data,
      compliance_data, loanPrompt, loanReturn, loanRaised>>
fanVars == <<fanTask, fanInbox, fanHandling>>
sampleVars ==
    <<calcVars, routineVars, travelVars, memoryVars, complianceVars, loanVars, fanVars>>
vars == <<storeVars, agentVars, policyVars, sampleVars>>

(***************************************************************************)
(* Bounds of the model.                                                    *)
(***************************************************************************)
MaxStores == 2          \* store_feedback calls per run
MaxClock == 3           \* wall-clock readings are clockBase .. clockBase + MaxClock
SubSecondSteps == 2     \* clock readings per second (stands for the microseconds)
MaxLimit == 4           \* limits tried besides the ones the program uses
MaxAsks == 2            \* query() calls per run
MaxFeedback == 3        \* ratings the provider takes in per run
SeedCount == 4          \* documents of a small container that already exists
PrefillCount == 99      \* documents of a large container that already exists
MaxExprLen == 3         \* characters of an expression given to calculate
MaxInvoked == 3         \* invoked() calls on the UserInfoMemory per run

(***************************************************************************)
(* Program constants.                                                      *)
(***************************************************************************)
SummaryWindow == 100
ExampleLimit == 3
DefaultHistoryLimit == 10
DefaultHelpfulLimit == 5

Users == {"u1", "u2"}
Exchanges == {<<"q1", "r1">>, <<"q2", "r2">>}
TieOrders == {"id_asc", "id_desc"}
None == <<>>
Some(x) == <<x>>

Min(a, b) == IF a <= b THEN a ELSE b

(***************************************************************************)
(* datetime.utcnow().isoformat(): seconds, then the fraction unless zero.  *)
(***************************************************************************)
IsoFormat(t) ==
    LET sec  == t \div SubSecondSteps
        frac == t % SubSecondSteps
    IN  IF frac = 0 THEN <<sec>> ELSE <<sec, frac>>

(***************************************************************************)
(* String comparison of the ORDER BY: field by field, a proper prefix      *)
(* sorting before the longer string.                                       *)
(***************************************************************************)
\* variant: shorter strings first, then field by field
StrLessByLength(a, b) ==
    \/ Len(a) < Len(b)
    \/ /\ Len(a) = Len(b)
       /\ \E k \in 1..Len(b) : /\ \A j \in 1..(k - 1) : a[j] = b[j]
                               /\ a[k] < b[k]

StrLess(a, b) ==
    \E k \in 1..Len(b) :
        /\ \A j \in 1..(k - 1) : j <= Len(a) /\ a[j] = b[j]
        /\ (k > Len(a) \/ a[k] < b[k])

(***************************************************************************)
(* ORDER BY c.timestamp DESC.  The order of documents with equal           *)
(* timestamps is not specified by the query: tie is the order the          *)
(* database happens to use.                                                *)
(***************************************************************************)
TieBefore(a, b, tie) == IF tie = "id_asc" THEN a.id < b.id ELSE a.id > b.id

OrderedBefore(a, b, tie) ==
    \/ StrLess(b.timestamp, a.timestamp)
    \/ a.timestamp = b.timestamp /\ TieBefore(a, b, tie)

(***************************************************************************)
(* container.query_items: WHERE c.user_id = @user_id [AND c.feedback =     *)
(* true] ORDER BY c.timestamp DESC OFFSET 0 LIMIT @limit.                  *)
(***************************************************************************)
\* variant: the query without its user_id condition
QueryItemsAnyUser(user_id, onlyHelpful, limit, tie) ==
    LET selected == SelectSeq(container, LAMBDA c : onlyHelpful => c.feedback)
        ordered  == SortSeq(selected, LAMBDA a, b : OrderedBefore(a, b, tie))
    IN  SubSeq(ordered, 1, Min(limit, Len(ordered)))

QueryItems(user_id, onlyHelpful, limit, tie) ==
    LET selected == SelectSeq(container,
                        LAMBDA c : c.user_id = user_id /\ (onlyHelpful => c.feedback))
        ordered  == SortSeq(selected, LAMBDA a, b : OrderedBefore(a, b, tie))
    IN  SubSeq(ordered, 1, Min(limit, Len(ordered)))

GetUserFeedbackHistory(user_id, limit, tie) == QueryItems(user_id, FALSE, limit, tie)

\* variant: the query without its feedback condition
GetHelpfulFeedbackUnfiltered(user_id, limit, tie) == QueryItems(user_id, FALSE, limit, tie)

GetHelpfulFeedback(user_id, limit, tie) == QueryItems(user_id, TRUE, limit, tie)

(***************************************************************************)
(* helpful_count / len(history): the quotient, kept as a fraction in       *)
(* lowest terms <<numerator, denominator>>; 0.0 is <<0, 1>>.               *)
(***************************************************************************)
RECURSIVE Gcd(_, _)
Gcd(a, b) == IF b = 0 THEN a ELSE Gcd(b, a % b)

Divide(a, b) == <<a \div Gcd(a, b), b \div Gcd(a, b)>>

\* variant: every record counted as helpful
CountHelpfulAll(history) == Len(history)

CountHelpful(history) == Cardinality({i \in DOMAIN history : history[i].feedback})

(***************************************************************************)
(* FeedbackStore.get_feedback_summary                                      *)
(***************************************************************************)
\* variant: the history read with its default limit
GetFeedbackSummaryDefaultLimit(user_id, tie) ==
    LET history == GetUserFeedbackHistory(user_id, DefaultHistoryLimit, tie)
        helpful_count == CountHelpful(history)
    IN  IF history = <<>>
        THEN [total_interactions |-> 0, helpful_count |-> 0,
              not_helpful_count |-> 0, helpful_ratio |-> <<0, 1>>]
        ELSE [total_interactions |-> Len(history),
              helpful_count      |-> helpful_count,
              not_helpful_count  |-> Len(history) - helpful_count,
              helpful_ratio      |-> Divide(helpful_count, Len(history))]

GetFeedbackSummary(user_id, tie) ==
    LET history == GetUserFeedbackHistory(user_id, SummaryWindow, tie)
        helpful_count == CountHelpful(history)
        not_helpful_count == Len(history) - helpful_count
    IN  IF history = <<>>
        THEN [total_interactions |-> 0, helpful_count |-> 0,
              not_helpful_count |-> 0, helpful_ratio |-> <<0, 1>>]
        ELSE [total_interactions |-> Len(history),
              helpful_count      |-> helpful_count,
              not_helpful_count  |-> not_helpful_count,
              helpful_ratio      |-> Divide(helpful_count, Len(history))]

(***************************************************************************)
(* The format "{:.1%}": the ratio times 100, to one decimal, as a number   *)
(* of tenths of a percent, an exact half rounding to the even digit.       *)
(***************************************************************************)
FormatPercent(ratio) ==
    LET scaled == ratio[1] * 1000
        floor  == scaled \div ratio[2]
        twice  == 2 * (scaled % ratio[2])
    IN  IF twice > ratio[2] \/ (twice = ratio[2] /\ floor % 2 = 1)
        THEN floor + 1
        ELSE floor

(***************************************************************************)
(* FeedbackAwareAgent._build_feedback_context, from the summary and the    *)
(* helpful examples it has read: the parts that "".join concatenates.      *)
(***************************************************************************)
StatisticsPart(feedback_summary) ==
    [kind      |-> "statistics",
     total     |-> feedback_summary.total_interactions,
     helpful   |-> feedback_summary.helpful_count,
     unhelpful |-> feedback_summary.not_helpful_count,
     rate      |-> FormatPercent(feedback_summary.helpful_ratio)]

ExamplePart(ex) == [kind |-> "example", query |-> ex.query, response |-> ex.response]

ExamplesHeader == [kind |-> "examples_header"]

ContextParts(feedback_summary, helpful_examples) ==
    (IF feedback_summary.total_interactions > 0
     THEN <<StatisticsPart(feedback_summary)>>
     ELSE <<>>)
    \o
    (IF helpful_examples # <<>>
     THEN <<ExamplesHeader>> \o
          [i \in 1..Len(helpful_examples) |-> ExamplePart(helpful_examples[i])]
     ELSE <<>>)

\* variant: the examples read with the default limit
BuildFeedbackContextDefaultLimit(user_id, tieSummary, tieExamples) ==
    ContextParts(GetFeedbackSummary(user_id, tieSummary),
                 GetHelpfulFeedback(user_id, DefaultHelpfulLimit, tieExamples))

\* variant: the examples taken from the history, helpful or not
BuildFeedbackContextFromHistory(user_id, tieSummary, tieExamples) ==
    ContextParts(GetFeedbackSummary(user_id, tieSummary),
                 GetUserFeedbackHistory(user_id, ExampleLimit, tieExamples))

BuildFeedbackContext(user_id, tieSummary, tieExamples) ==
    ContextParts(GetFeedbackSummary(user_id, tieSummary),
                 GetHelpfulFeedback(user_id, ExampleLimit, tieExamples))

(***************************************************************************)
(* FeedbackStore.store_feedback: one create_item of a new document.  The   *)
(* uuid4 identifier is a value no earlier document carries; now is the     *)
(* wall-clock reading of datetime.utcnow().                                *)
(***************************************************************************)
IssuedIds ==
    {container[i].id : i \in DOMAIN container}
        \cup {inflight[a][1].id : a \in {b \in DOMAIN inflight : inflight[b] # None}}

\* the identifiers in use are 1 .. Cardinality(IssuedIds): the next number is new
NewId == Cardinality(IssuedIds) + 1

ContextOrEmpty(context) == IF context = None \/ context[1] = {} THEN {} ELSE context[1]

\* variant: query and response stored in each other's field
FeedbackItemSwapped(user_id, query, response, feedback, context, now) ==
    [id            |-> NewId,
     user_id       |-> user_id,
     query         |-> response,
     response      |-> query,
     feedback      |-> feedback,
     feedback_type |-> IF feedback THEN "helpful" ELSE "not_helpful",
     timestamp     |-> IsoFormat(now),
     context       |-> ContextOrEmpty(context)]

FeedbackItem(user_id, query, response, feedback, context, now) ==
    [id            |-> NewId,
     user_id       |-> user_id,
     query         |-> query,
     response      |-> response,
     feedback      |-> feedback,
     feedback_type |-> IF feedback THEN "helpful" ELSE "not_helpful",
     timestamp     |-> IsoFormat(now),
     context       |-> ContextOrEmpty(context)]

\* variant: the user's record of the same query replaced, if there is one
StoreFeedbackReplacing(user_id, query, response, feedback, context, now) ==
    /\ nstores < MaxStores
    /\ LET same == {i \in DOMAIN container :
                       container[i].user_id = user_id /\ container[i].query = query}
           item == FeedbackItem(user_id, query, response, feedback, context, now)
       IN  container' = IF same = {}
                        THEN Append(container, item)
                        ELSE LET i == CHOOSE i \in same : TRUE
                             IN  [container EXCEPT ![i] = [item EXCEPT !.id = i]]
    /\ nstores' = nstores + 1
    /\ lastStore' = Some([user_id |-> user_id, query |-> query, response |-> response,
                          feedback |-> feedback, now |-> now])
    /\ writes' = writes + 1
    /\ storeResult' = Some([written |-> TRUE, raised |-> FALSE, feedback_id |-> Some(NewId)])
    /\ UNCHANGED <<clockBase, tieOrder, lastRead, inflight>>

StoreFeedback(user_id, query, response, feedback, context, now) ==
    /\ nstores < MaxStores
    /\ container' = Append(container,
                           FeedbackItem(user_id, query, response, feedback, context, now))
    /\ nstores' = nstores + 1
    /\ lastStore' = Some([user_id |-> user_id, query |-> query, response |-> response,
                          feedback |-> feedback, now |-> now])
    /\ writes' = writes + 1
    /\ storeResult' = Some([written |-> TRUE, raised |-> FALSE, feedback_id |-> Some(NewId)])
    /\ UNCHANGED <<clockBase, tieOrder, lastRead, inflight>>

(***************************************************************************)
(* store_feedback when create_item raises (the storage is unavailable):    *)
(* the exception leaves store_feedback, line 47 is not reached, no         *)
(* document is created.  FeedbackAwareAgent.store_feedback has no handler  *)
(* either, so its caller sees the same exception.                          *)
(***************************************************************************)
\* variant: the exception caught and the identifier returned all the same
StoreFeedbackSwallowed(user_id, query, response, feedback, context, now) ==
    /\ nstores < MaxStores
    /\ nstores' = nstores + 1
    /\ writes' = writes + 1
    /\ storeResult' = Some([written |-> FALSE, raised |-> FALSE, feedback_id |-> Some(NewId)])
    /\ UNCHANGED <<container, clockBase, lastStore, tieOrder, lastRead, inflight>>

StoreFeedbackUnavailable(user_id, query, response, feedback, context, now) ==
    /\ nstores < MaxStores
    /\ nstores' = nstores + 1
    /\ writes' = writes + 1
    /\ storeResult' = Some([written |-> FALSE, raised |-> TRUE, feedback_id |-> None])
    /\ UNCHANGED <<container, clockBase, lastStore, tieOrder, lastRead, inflight>>

(***************************************************************************)
(* FeedbackAwareAgent.  Each agent is a session of one user in a process   *)
(* of its own; all share the container.                                    *)
(***************************************************************************)
Agents == {"a1", "a2", "a3"}
UserOf(a) == IF a = "a3" THEN "u2" ELSE "u1"
Askers == {"a1"}            \* the sessions that ask in SpecAgent
Writers == {"a1", "a2"}     \* the sessions that store feedback in SpecAgent
UserInputs == {"q1", "q2"}

\* __init__: self.thread = None
AgentsConstructed ==
    /\ thread = [a \in Agents |-> 0]
    /\ nthreads = 0
    /\ pc = [a \in Agents |-> "idle"]
    /\ pending = [a \in Agents |-> None]
    /\ forwarded = None
    /\ reply = None
    /\ nasks = 0
    /\ nruns = 0

\* initialize_thread: a new thread unless the agent has one
\* variant: a new thread at every call
ThreadAfterInitializeAlways(a) == nthreads + 1

ThreadAfterInitialize(a) == IF thread[a] = 0 THEN nthreads + 1 ELSE thread[a]

InitializeThread(a) ==
    /\ pc[a] = "idle"
    /\ thread' = [thread EXCEPT ![a] = ThreadAfterInitialize(a)]
    /\ nthreads' = IF thread'[a] = thread[a] THEN nthreads ELSE nthreads + 1
    /\ UNCHANGED <<storeVars, pc, pending, forwarded, reply, nasks, nruns, policyVars, sampleVars>>

(***************************************************************************)
(* The prompt passed to agent.run: a sequence of pieces of text.           *)
(***************************************************************************)
Text(t) == [kind |-> "text", text |-> t]
ContextOpen == [kind |-> "context_open"]
ContextClose == [kind |-> "context_close"]

\* variant: the context appended even when empty
AugmentedInputAlways(user_input, feedback_context) ==
    <<Text(user_input), ContextOpen>> \o feedback_context \o <<ContextClose>>

AugmentedInput(user_input, feedback_context) ==
    IF feedback_context # <<>>
    THEN <<Text(user_input), ContextOpen>> \o feedback_context \o <<ContextClose>>
    ELSE <<Text(user_input)>>

(***************************************************************************)
(* query(), up to its first read of the container: the thread is created   *)
(* if missing and _build_feedback_context reads the summary.               *)
(***************************************************************************)
QuerySummary(a, user_input) ==
    /\ pc[a] = "idle"
    /\ nasks < MaxAsks
    /\ nasks' = nasks + 1
    /\ thread' = [thread EXCEPT ![a] = ThreadAfterInitialize(a)]
    /\ nthreads' = IF thread'[a] = thread[a] THEN nthreads ELSE nthreads + 1
    /\ \E tie \in TieOrders :
           pending' = [pending EXCEPT ![a] =
               Some([user_input       |-> user_input,
                     feedback_summary |-> GetFeedbackSummary(UserOf(a), tie),
                     stored_before    |-> Cardinality({i \in DOMAIN container :
                                              container[i].user_id = UserOf(a)}),
                     helpful_before   |-> Cardinality({i \in DOMAIN container :
                                              /\ container[i].user_id = UserOf(a)
                                              /\ container[i].feedback})])]
    /\ pc' = [pc EXCEPT ![a] = "summarized"]
    /\ UNCHANGED <<storeVars, forwarded, reply, nruns, policyVars, sampleVars>>

(***************************************************************************)
(* query(), from the second read of the container to the call of           *)
(* agent.run: the helpful examples are read, the context is built and the  *)
(* augmented input is passed on.                                           *)
(***************************************************************************)
QueryForward(a) ==
    /\ pc[a] = "summarized"
    /\ \E tie \in TieOrders :
           LET p == pending[a][1]
               feedback_context ==
                   ContextParts(p.feedback_summary,
                                GetHelpfulFeedback(UserOf(a), ExampleLimit, tie))
           IN  forwarded' =
                   Some([agent            |-> a,
                         user_input       |-> p.user_input,
                         feedback_context |-> feedback_context,
                         augmented_input  |-> AugmentedInput(p.user_input, feedback_context),
                         thread           |-> thread[a],
                         stored_before    |-> p.stored_before,
                         helpful_before   |-> p.helpful_before])
    /\ pending' = [pending EXCEPT ![a] = None]
    /\ pc' = [pc EXCEPT ![a] = "running"]
    /\ nruns' = nruns + 1
    /\ UNCHANGED <<storeVars, thread, nthreads, reply, nasks, policyVars, sampleVars>>

(***************************************************************************)
(* query(), the end of agent.run: the model answers, with a response that  *)
(* may be empty, or the call raises.                                       *)
(***************************************************************************)
ModelOutcomes == {[raised |-> TRUE, text |-> ""],
                  [raised |-> FALSE, text |-> ""],
                  [raised |-> FALSE, text |-> "r1"]}

QueryResult(a, outcome) == [agent |-> a, raised |-> outcome.raised, text |-> outcome.text]

\* variant: agent.run called a second time when it raises
QueryReturnRetrying(a) ==
    /\ pc[a] = "running"
    /\ \E outcome \in ModelOutcomes :
           /\ reply' = Some(QueryResult(a, outcome))
           /\ nruns' = IF outcome.raised THEN nruns + 1 ELSE nruns
    /\ pc' = [pc EXCEPT ![a] = "idle"]
    /\ UNCHANGED <<storeVars, thread, nthreads, pending, forwarded, nasks, policyVars, sampleVars>>

QueryReturn(a) ==
    /\ pc[a] = "running"
    /\ \E outcome \in ModelOutcomes : reply' = Some(QueryResult(a, outcome))
    /\ pc' = [pc EXCEPT ![a] = "idle"]
    /\ UNCHANGED <<storeVars, thread, nthreads, pending, forwarded, nasks, nruns, policyVars, sampleVars>>

(***************************************************************************)
(* FeedbackAwareAgent.store_feedback                                       *)
(***************************************************************************)
SessionContext(is_helpful) ==
    {<<"feedback_session", TRUE>>, <<"improvement_needed", ~is_helpful>>}

\* variant: the record stored under the name of the session
AgentStoreFeedbackBySession(a, query, response, is_helpful, now) ==
    /\ pc[a] = "idle"
    /\ StoreFeedback(a, query, response, is_helpful,
                     Some(SessionContext(is_helpful)), now)
    /\ UNCHANGED <<agentVars, policyVars, sampleVars>>

AgentStoreFeedback(a, query, response, is_helpful, now) ==
    /\ pc[a] = "idle"
    /\ StoreFeedback(UserOf(a), query, response, is_helpful,
                     Some(SessionContext(is_helpful)), now)
    /\ UNCHANGED <<agentVars, policyVars, sampleVars>>

AgentStoreFeedbackUnavailable(a, query, response, is_helpful, now) ==
    /\ pc[a] = "idle"
    /\ StoreFeedbackUnavailable(UserOf(a), query, response, is_helpful,
                                Some(SessionContext(is_helpful)), now)
    /\ UNCHANGED <<agentVars, policyVars, sampleVars>>

(***************************************************************************)
(* rl_preference_learning.py.  Suggestions are strings of characters:      *)
(* str.lower() and the substring test "in" work on them as in the code.    *)
(***************************************************************************)
MinRating == 1
MaxRating == 5
PositiveRating == 4

\* UserPreferences()
DefaultPreferences ==
    [technical_depth   |-> "medium",
     prefer_examples   |-> TRUE,
     response_length   |-> "balanced",
     feedback_count    |-> 0,
     positive_feedback |-> 0]

ProviderConstructed ==
    /\ preferences = DefaultPreferences
    /\ lastCall = [op |-> "none", extraction |-> "none", rating |-> 0,
                   suggested |-> FALSE, surfaced |-> FALSE, win_rate |-> 0]
    /\ providerContext = None

UpperCase == "ABCDEFGHIJKLMNOPQRSTUVWXYZ"
LowerCase == "abcdefghijklmnopqrstuvwxyz"

LowerOfUpper ==
    [c \in {SubSeq(UpperCase, i, i) : i \in 1..Len(UpperCase)} |->
        LET i == CHOOSE i \in 1..Len(UpperCase) : SubSeq(UpperCase, i, i) = c
        IN  SubSeq(LowerCase, i, i)]

LowerChar(c) == IF c \in DOMAIN LowerOfUpper THEN LowerOfUpper[c] ELSE c

RECURSIVE Lower(_)
Lower(s) == IF Len(s) = 0 THEN "" ELSE LowerChar(SubSeq(s, 1, 1)) \o Lower(SubSeq(s, 2, Len(s)))

\* keyword in text
Contains(keyword, text) ==
    \E i \in 1..(Len(text) - Len(keyword) + 1) :
        SubSeq(text, i, i + Len(keyword) - 1) = keyword

(***************************************************************************)
(* PreferenceLearningProvider._update_policy                               *)
(***************************************************************************)
\* lowered is suggestion.lower()
\* variant: the two length tests in the other order
LengthAfterShorterFirst(prefs, lowered) ==
    IF Contains("shorter", lowered) \/ Contains("concise", lowered)
    THEN "concise"
    ELSE IF Contains("more detailed", lowered) \/ Contains("more code", lowered)
         THEN "detailed"
         ELSE prefs.response_length

LengthAfter(prefs, lowered) ==
    IF Contains("more detailed", lowered) \/ Contains("more code", lowered)
    THEN "detailed"
    ELSE IF Contains("shorter", lowered) \/ Contains("concise", lowered)
         THEN "concise"
         ELSE prefs.response_length

\* variant: the keyword found kept as the depth
DepthAfterKeyword(prefs, lowered) ==
    IF Contains("advanced", lowered)
    THEN "advanced"
    ELSE IF Contains("simpler", lowered)
         THEN "simpler"
         ELSE IF Contains("basic", lowered)
              THEN "basic"
              ELSE prefs.technical_depth

\* variant: the depth learned only while it is still the default
DepthAfterFromDefault(prefs, lowered) ==
    IF prefs.technical_depth # "medium"
    THEN prefs.technical_depth
    ELSE IF Contains("advanced", lowered)
         THEN "advanced"
         ELSE IF Contains("simpler", lowered) \/ Contains("basic", lowered)
              THEN "basic"
              ELSE prefs.technical_depth

DepthAfter(prefs, lowered) ==
    IF Contains("advanced", lowered)
    THEN "advanced"
    ELSE IF Contains("simpler", lowered) \/ Contains("basic", lowered)
         THEN "basic"
         ELSE prefs.technical_depth

\* variant: a positive rating counted as positive only, not as feedback
UpdatePolicyCountsEither(prefs, feedback) ==
    LET learns  == feedback.suggestion # None /\ Len(feedback.suggestion[1]) > 0
        lowered == Lower(feedback.suggestion[1])
    IN  [technical_depth   |-> IF learns THEN DepthAfter(prefs, lowered)
                               ELSE prefs.technical_depth,
         prefer_examples   |-> prefs.prefer_examples,
         response_length   |-> IF learns THEN LengthAfter(prefs, lowered)
                               ELSE prefs.response_length,
         feedback_count    |-> IF feedback.rating >= PositiveRating
                               THEN prefs.feedback_count
                               ELSE prefs.feedback_count + 1,
         positive_feedback |-> IF feedback.rating >= PositiveRating
                               THEN prefs.positive_feedback + 1
                               ELSE prefs.positive_feedback]

\* variant: a suggestion decides whether examples are wanted
UpdatePolicyLearnsExamples(prefs, feedback) ==
    LET learns  == feedback.suggestion # None /\ Len(feedback.suggestion[1]) > 0
        lowered == Lower(feedback.suggestion[1])
    IN  [technical_depth   |-> IF learns THEN DepthAfter(prefs, lowered)
                               ELSE prefs.technical_depth,
         prefer_examples   |-> IF learns THEN Contains("more code", lowered)
                               ELSE prefs.prefer_examples,
         response_length   |-> IF learns THEN LengthAfter(prefs, lowered)
                               ELSE prefs.response_length,
         feedback_count    |-> prefs.feedback_count + 1,
         positive_feedback |-> IF feedback.rating >= PositiveRating
                               THEN prefs.positive_feedback + 1
                               ELSE prefs.positive_feedback]

\* variant: positive only above the threshold
UpdatePolicyStrictlyAbove(prefs, feedback) ==
    LET learns  == feedback.suggestion # None /\ Len(feedback.suggestion[1]) > 0
        lowered == Lower(feedback.suggestion[1])
    IN  [technical_depth   |-> IF learns THEN DepthAfter(prefs, lowered)
                               ELSE prefs.technical_depth,
         prefer_examples   |-> prefs.prefer_examples,
         response_length   |-> IF learns THEN LengthAfter(prefs, lowered)
                               ELSE prefs.response_length,
         feedback_count    |-> prefs.feedback_count + 1,
         positive_feedback |-> IF feedback.rating > PositiveRating
                               THEN prefs.positive_feedback + 1
                               ELSE prefs.positive_feedback]

UpdatePolicy(prefs, feedback) ==
    LET learns  == feedback.suggestion # None /\ Len(feedback.suggestion[1]) > 0
        lowered == Lower(feedback.suggestion[1])
    IN  [technical_depth   |-> IF learns THEN DepthAfter(prefs, lowered)
                               ELSE prefs.technical_depth,
         prefer_examples   |-> prefs.prefer_examples,
         response_length   |-> IF learns THEN LengthAfter(prefs, lowered)
                               ELSE prefs.response_length,
         feedback_count    |-> prefs.feedback_count + 1,
         positive_feedback |-> IF feedback.rating >= PositiveRating
                               THEN prefs.positive_feedback + 1
                               ELSE prefs.positive_feedback]

(***************************************************************************)
(* PreferenceLearningProvider.invoked.  request_messages is the sequence   *)
(* of the roles of the messages; result is what get_response does: it      *)
(* raises, or returns a response whose value is None or a UserFeedback.    *)
(***************************************************************************)
RequestShapes == {<<"user">>, <<"assistant">>, <<"system", "user", "assistant">>}

SuggestionTexts ==
    {"", "fine", "please be more detailed", "more code examples", "shorter",
     "Be Concise", "ADVANCED topics", "simpler please", "basically fine",
     "advanced but simpler", "more detailed yet concise", "more  detailed",
     "simpler, not ADVANCED", "concise with more code", "shorter and basic"}

UserFeedbacks ==
    [rating : MinRating..MaxRating,
     suggestion : {None} \cup {Some(t) : t \in SuggestionTexts}]

ExtractionResults ==
    {[raises |-> TRUE, value |-> None], [raises |-> FALSE, value |-> None]}
        \cup {[raises |-> FALSE, value |-> Some(f)] : f \in UserFeedbacks}

UserMessages(request_messages) == SelectSeq(request_messages, LAMBDA role : role = "user")

\* the preferences after the call, and whether the call let an exception out
\* variant: the exception let through, and an extraction without a rating counted
InvokedEffectUnguarded(prefs, request_messages, result) ==
    IF UserMessages(request_messages) # <<>>
    THEN IF result.raises
         THEN [preferences |-> prefs, surfaced |-> TRUE]
         ELSE IF result.value # None /\ result.value[1].rating # 0
              THEN [preferences |-> UpdatePolicy(prefs, result.value[1]), surfaced |-> FALSE]
              ELSE [preferences |-> [prefs EXCEPT !.feedback_count = @ + 1],
                    surfaced |-> FALSE]
    ELSE [preferences |-> prefs, surfaced |-> FALSE]

InvokedEffect(prefs, request_messages, result) ==
    IF UserMessages(request_messages) # <<>>
    THEN IF result.raises
         THEN [preferences |-> prefs, surfaced |-> FALSE]
         ELSE IF result.value # None /\ result.value[1].rating # 0
              THEN [preferences |-> UpdatePolicy(prefs, result.value[1]), surfaced |-> FALSE]
              ELSE [preferences |-> prefs, surfaced |-> FALSE]
    ELSE [preferences |-> prefs, surfaced |-> FALSE]

\* what the extraction came to, as the caller of get_response sees it
ExtractionOf(request_messages, result) ==
    IF UserMessages(request_messages) = <<>> THEN "not_attempted"
    ELSE IF result.raises THEN "raised"
    ELSE IF result.value = None THEN "no_value"
    ELSE "rated"

Invoked(request_messages, result) ==
    /\ preferences.feedback_count < MaxFeedback
    /\ LET effect == InvokedEffect(preferences, request_messages, result)
           rated  == ExtractionOf(request_messages, result) = "rated"
       IN  /\ preferences' = effect.preferences
           /\ lastCall' = [op         |-> "invoked",
                           extraction |-> ExtractionOf(request_messages, result),
                           rating     |-> IF rated THEN result.value[1].rating ELSE 0,
                           suggested  |-> rated /\ result.value[1].suggestion # None,
                           surfaced   |-> effect.surfaced,
                           win_rate   |-> 0]
    /\ UNCHANGED <<storeVars, agentVars, sampleVars, providerContext>>

(***************************************************************************)
(* PreferenceLearningProvider.invoking: the instructions built from the    *)
(* policy, and the win rate it prints ("{:.0f}").                          *)
(***************************************************************************)
RoundHalfEven(num, den) ==
    LET floor == num \div den
        twice == 2 * (num % den)
    IN  IF twice > den \/ (twice = den /\ floor % 2 = 1) THEN floor + 1 ELSE floor

WinRate(prefs) ==
    IF prefs.feedback_count > 0
    THEN RoundHalfEven(prefs.positive_feedback * 100, prefs.feedback_count)
    ELSE 0

Instructions(prefs) ==
    << [kind |-> "technical_level", value |-> prefs.technical_depth],
       [kind |-> "response_style", value |-> prefs.response_length] >>
    \o (IF prefs.prefer_examples
        THEN << [kind |-> "include_examples", value |-> "code"] >>
        ELSE <<>>)

Invoking ==
    /\ providerContext' = Some(Instructions(preferences))
    /\ lastCall' = [op |-> "invoking", extraction |-> "none", rating |-> 0,
                    suggested |-> FALSE, surfaced |-> FALSE,
                    win_rate |-> WinRate(preferences)]
    /\ UNCHANGED <<storeVars, agentVars, sampleVars, preferences>>

(***************************************************************************)
(* The other sample programs of the repository have not been run.          *)
(***************************************************************************)
CalculateNotCalled ==
    /\ expression = ""
    /\ calcReturn = None

RoutineNotStarted ==
    /\ routineMessage = None
    /\ routineCalls = <<>>
    /\ routineOutputs = <<>>

TravelNotStarted ==
    /\ travelShared = None
    /\ travelMessage = None
    /\ travelOutputs = <<>>
    /\ travelRaised = None
    /\ missingKey = "None"

MemoryNotUsed ==
    /\ user_info = [name |-> None, age |-> None]
    /\ extracting = [c \in {"c1", "c2"} |-> None]
    /\ extracted = <<>>
    /\ ninvoked = 0
    /\ memoryContext = None

ComplianceNotAsked ==
    /\ complianceRequest = None
    /\ complianceResponse = None

LoanNotStarted ==
    /\ loanCustomer = None
    /\ loanModel = None
    /\ loanPc = [r \in {"r1", "r2"} |-> "risk"]
    /\ riskReply = [r \in {"r1", "r2"} |-> None]
    /\ complianceReply = [r \in {"r1", "r2"} |-> None]
    /\ risk_data = [r \in {"r1", "r2"} |-> None]
    /\ compliance_data = [r \in {"r1", "r2"} |-> None]
    /\ loanPrompt = [r \in {"r1", "r2"} |-> None]
    /\ loanReturn = [r \in {"r1", "r2"} |-> None]
    /\ loanRaised = [r \in {"r1", "r2"} |-> None]

FanoutNotStarted ==
    /\ fanTask = None
    /\ fanInbox = None
    /\ fanHandling = {}

SamplesNotRun ==
    /\ CalculateNotCalled
    /\ RoutineNotStarted
    /\ TravelNotStarted
    /\ MemoryNotUsed
    /\ ComplianceNotAsked
    /\ LoanNotStarted
    /\ FanoutNotStarted

\* the feedback store is empty, no session has asked, the provider is new
FeedbackLoopNotRun ==
    /\ container = <<>>
    /\ clockBase = 0
    /\ nstores = 0
    /\ lastStore = None
    /\ writes = 0
    /\ storeResult = None
    /\ tieOrder = "id_asc"
    /\ lastRead = None
    /\ inflight = [a \in Agents |-> None]
    /\ AgentsConstructed
    /\ ProviderConstructed

(***************************************************************************)
(* The container outlives the processes (create_container_if_not_exists):  *)
(* a run starts on an empty container or on one that holds the documents   *)
(* of earlier runs, here n documents of user u1 written one clock reading  *)
(* apart from reading 1 on, two in three of them helpful.                  *)
(***************************************************************************)
ExistingDocument(i) ==
    [id            |-> i,
     user_id       |-> "u1",
     query         |-> IF i % 2 = 1 THEN "q1" ELSE "q2",
     response      |-> IF i % 2 = 1 THEN "r1" ELSE "r2",
     feedback      |-> (i % 3 # 0),
     feedback_type |-> IF i % 3 # 0 THEN "helpful" ELSE "not_helpful",
     timestamp     |-> IsoFormat(i),
     context       |-> {}]

ExistingContainer(n) == [i \in 1..n |-> ExistingDocument(i)]

(***************************************************************************)
(* Spec: store_feedback calls of any user on an empty or a small           *)
(* container.                                                              *)
(***************************************************************************)
Init ==
    /\ container \in {<<>>, ExistingContainer(SeedCount)}
    /\ clockBase = 0
    /\ nstores = 0
    /\ lastStore = None
    /\ writes = 0
    /\ storeResult = None
    /\ tieOrder = "id_asc"
    /\ lastRead = None
    /\ inflight = [a \in Agents |-> None]
    /\ AgentsConstructed
    /\ ProviderConstructed
    /\ SamplesNotRun

Store ==
    \E user_id \in Users, x \in Exchanges, feedback \in BOOLEAN, d \in 0..MaxClock :
        /\ StoreFeedback(user_id, x[1], x[2], feedback, None, clockBase + d)
        /\ UNCHANGED <<agentVars, policyVars, sampleVars>>

Next == Store

Spec == Init /\ [][Next]_vars

(***************************************************************************)
(* SpecWindow: store_feedback calls on an empty container or on one that   *)
(* is about to exceed the summary window, the clock standing before or     *)
(* after the existing documents.                                           *)
(***************************************************************************)
InitWindow ==
    /\ nstores = 0
    /\ lastStore = None
    /\ writes = 0
    /\ storeResult = None
    /\ tieOrder = "id_asc"
    /\ lastRead = None
    /\ inflight = [a \in Agents |-> None]
    /\ AgentsConstructed
    /\ ProviderConstructed
    /\ SamplesNotRun
    /\ \/ container = <<>> /\ clockBase = 0
       \/ container = ExistingContainer(PrefillCount)
          /\ clockBase \in {0, PrefillCount - 1}

StoreWindow ==
    \E user_id \in Users, feedback \in BOOLEAN, d \in {0, MaxClock} :
        /\ StoreFeedback(user_id, "q1", "r1", feedback, None, clockBase + d)
        /\ UNCHANGED <<agentVars, policyVars, sampleVars>>

NextWindow == StoreWindow

SpecWindow == InitWindow /\ [][NextWindow]_vars

(***************************************************************************)
(* SpecAgent: two sessions of user u1, each in its own process, on an      *)
(* empty container or on one about to exceed the summary window; one asks  *)
(* and both store feedback.                                                *)
(***************************************************************************)
InitAgent ==
    /\ nstores = 0
    /\ lastStore = None
    /\ writes = 0
    /\ storeResult = None
    /\ tieOrder = "id_asc"
    /\ lastRead = None
    /\ inflight = [a \in Agents |-> None]
    /\ clockBase = 0
    /\ container \in {<<>>, ExistingContainer(PrefillCount)}
    /\ AgentsConstructed
    /\ ProviderConstructed
    /\ SamplesNotRun

NextAgent ==
    \/ \E a \in Askers : InitializeThread(a)
    \/ \E a \in Askers, user_input \in UserInputs : QuerySummary(a, user_input)
    \/ \E a \in Askers : QueryForward(a)
    \/ \E a \in Askers : QueryReturn(a)
    \/ \E a \in Writers, is_helpful \in BOOLEAN, d \in {0, MaxClock} :
           AgentStoreFeedback(a, "q1", "r1", is_helpful, clockBase + d)

SpecAgent == InitAgent /\ [][NextAgent]_vars

(***************************************************************************)
(* SpecPolicy: the calls the framework makes on the preference provider.   *)
(***************************************************************************)
InitPolicy ==
    /\ nstores = 0
    /\ lastStore = None
    /\ writes = 0
    /\ storeResult = None
    /\ tieOrder = "id_asc"
    /\ lastRead = None
    /\ inflight = [a \in Agents |-> None]
    /\ clockBase = 0
    /\ container = <<>>
    /\ AgentsConstructed
    /\ ProviderConstructed
    /\ SamplesNotRun

NextPolicy ==
    \/ \E request_messages \in RequestShapes, result \in ExtractionResults :
           Invoked(request_messages, result)
    \/ Invoking

SpecPolicy == InitPolicy /\ [][NextPolicy]_vars

(***************************************************************************)
(* Vocabulary of the properties.  The time a document was written is read  *)
(* back from its timestamp string.                                         *)
(***************************************************************************)
ParseIso(s) == s[1] * SubSecondSteps + (IF Len(s) > 1 THEN s[2] ELSE 0)

TimeOf(doc) == ParseIso(doc.timestamp)

UserDocs(u) == {i \in DOMAIN container : container[i].user_id = u}

HelpfulDocs(u) == {i \in UserDocs(u) : container[i].feedback}

Limits == (0..MaxLimit) \cup {5, 10, 100}

NonIncreasingTimes(h) == \A i \in 1..(Len(h) - 1) : TimeOf(h[i]) >= TimeOf(h[i + 1])

\* the documents of h are documents of the set docs, each at most once, and
\* no document of docs left out is later than one returned
MostRecentOf(h, docs) ==
    /\ \A i \in 1..Len(h) : h[i].id \in docs /\ container[h[i].id] = h[i]
    /\ \A i, j \in 1..Len(h) : i # j => h[i].id # h[j].id
    /\ \A d \in docs :
           (\A i \in 1..Len(h) : h[i].id # d)
               => \A i \in 1..Len(h) : TimeOf(container[d]) <= TimeOf(h[i])

(***************************************************************************)
(* C1: after every store call, for every user u, the summary reports       *)
(* total_interactions equal to the number of records stored for u, capped  *)
(* at 100, and helpful_count + not_helpful_count = total_interactions.     *)
(***************************************************************************)
C1_SummaryCountsStores ==
    \A u \in Users, tie \in TieOrders :
        LET s == GetFeedbackSummary(u, tie)
        IN  /\ s.total_interactions = Min(Cardinality(UserDocs(u)), 100)
            /\ s.helpful_count + s.not_helpful_count = s.total_interactions

C1_Witness ==
    /\ nstores > 0
    /\ Cardinality(UserDocs("u1")) > 100
    /\ GetFeedbackSummary("u1", "id_asc").total_interactions = 100
    /\ GetFeedbackSummary("u1", "id_asc").helpful_count > 0
    /\ GetFeedbackSummary("u1", "id_asc").not_helpful_count > 0

(***************************************************************************)
(* C2 as stated: right after store(u, q, r, h), recent_history(u, 1)       *)
(* returns exactly one record and its query, response and helpful fields   *)
(* are q, r and h.                                                         *)
(***************************************************************************)
C2_RoundTripAsStated ==
    lastStore # None =>
        \A tie \in TieOrders :
            LET a == lastStore[1]
                h == GetUserFeedbackHistory(a.user_id, 1, tie)
            IN  /\ Len(h) = 1
                /\ h[1].query = a.query
                /\ h[1].response = a.response
                /\ h[1].feedback = a.feedback

(***************************************************************************)
(* C2 amended: right after store(u, q, r, h), recent_history(u, 1) returns *)
(* exactly one record, a record of u that carries the greatest timestamp   *)
(* of u's records; it is the record just stored, with query, response and  *)
(* helpful equal to q, r and h, whenever the clock reading taken by the    *)
(* store is later than the timestamp of every earlier record of u.         *)
(***************************************************************************)
StoredLatest ==
    /\ lastStore # None
    /\ \A i \in UserDocs(lastStore[1].user_id) \ {Len(container)} :
           TimeOf(container[i]) < lastStore[1].now

C2_RoundTrip ==
    lastStore # None =>
        \A tie \in TieOrders :
            LET a == lastStore[1]
                h == GetUserFeedbackHistory(a.user_id, 1, tie)
            IN  /\ Len(h) = 1
                /\ h[1].user_id = a.user_id
                /\ \A i \in UserDocs(a.user_id) : TimeOf(container[i]) <= TimeOf(h[1])
                /\ StoredLatest =>
                       /\ h[1].id = Len(container)
                       /\ h[1].query = a.query
                       /\ h[1].response = a.response
                       /\ h[1].feedback = a.feedback
                       /\ TimeOf(h[1]) = a.now

C2_Witness ==
    /\ StoredLatest
    /\ Cardinality(UserDocs(lastStore[1].user_id)) >= 2
    /\ \E i \in UserDocs(lastStore[1].user_id) :
           container[i].query # lastStore[1].query
    /\ GetUserFeedbackHistory(lastStore[1].user_id, 1, "id_asc")[1].query
           = lastStore[1].query

(***************************************************************************)
(* C3: recent_history(u, limit) returns min(limit, number of records of u) *)
(* records, all of user u, ordered by time descending, and no record of u  *)
(* left out is later than a returned one; for a user without records it    *)
(* returns the empty sequence.                                             *)
(***************************************************************************)
C3_RecentHistory ==
    \A u \in Users, limit \in Limits, tie \in TieOrders :
        LET h == GetUserFeedbackHistory(u, limit, tie)
        IN  /\ Len(h) = Min(limit, Cardinality(UserDocs(u)))
            /\ \A i \in 1..Len(h) : h[i].user_id = u
            /\ NonIncreasingTimes(h)
            /\ MostRecentOf(h, UserDocs(u))
            /\ UserDocs(u) = {} => h = <<>>

C3_Witness ==
    /\ nstores > 0
    /\ UserDocs("u2") = {}
    /\ GetUserFeedbackHistory("u2", 10, "id_asc") = <<>>
    /\ Len(GetUserFeedbackHistory("u1", 1, "id_asc")) = 1
    /\ LET h == GetUserFeedbackHistory("u1", 2, "id_asc")
       IN  /\ Len(h) = 2
           /\ TimeOf(h[1]) > TimeOf(h[2])
           /\ Len(h[1].timestamp) < Len(h[2].timestamp)
           /\ h[1].id < h[2].id

(***************************************************************************)
(* C4: helpful_examples(u, limit) returns at most limit records (as many   *)
(* as there are, up to limit), all of user u and helpful, ordered by time  *)
(* descending, and no helpful record of u left out is later than a         *)
(* returned one, whatever not-helpful records were stored later.           *)
(***************************************************************************)
C4_HelpfulExamples ==
    \A u \in Users, limit \in Limits, tie \in TieOrders :
        LET h == GetHelpfulFeedback(u, limit, tie)
        IN  /\ Len(h) = Min(limit, Cardinality(HelpfulDocs(u)))
            /\ \A i \in 1..Len(h) : h[i].user_id = u /\ h[i].feedback
            /\ NonIncreasingTimes(h)
            /\ MostRecentOf(h, HelpfulDocs(u))

C4_Witness ==
    \E u \in Users :
        LET h == GetHelpfulFeedback(u, 1, "id_asc")
        IN  /\ nstores > 0
            /\ Len(h) = 1
            /\ h[1].feedback
            /\ \E i \in UserDocs(u) : /\ ~container[i].feedback
                                      /\ TimeOf(container[i]) > TimeOf(h[1])
                                      /\ i > h[1].id

(***************************************************************************)
(* C5: for every user without stored records, whatever the other users     *)
(* have stored, the summary is all zero with ratio 0.0 and the feedback    *)
(* context is the empty string.                                            *)
(***************************************************************************)
C5_NoRecordsNoContext ==
    \A u \in Users :
        UserDocs(u) = {} =>
            /\ \A tie \in TieOrders :
                   LET s == GetFeedbackSummary(u, tie)
                   IN  /\ s.total_interactions = 0
                       /\ s.helpful_count = 0
                       /\ s.not_helpful_count = 0
                       /\ s.helpful_ratio = <<0, 1>>
            /\ \A t1 \in TieOrders, t2 \in TieOrders :
                   BuildFeedbackContext(u, t1, t2) = <<>>

C5_Witness ==
    /\ nstores > 0
    /\ UserDocs("u2") = {}
    /\ HelpfulDocs("u1") # {}
    /\ BuildFeedbackContext("u1", "id_asc", "id_asc") # <<>>
    /\ BuildFeedbackContext("u2", "id_asc", "id_asc") = <<>>

(***************************************************************************)
(* C6: the summary of u reports as helpful_count the number of helpful     *)
(* records among the 100 most recent records of u, and as helpful_ratio    *)
(* the quotient helpful_count / total_interactions, 0 when there is no     *)
(* record; after (u1, not helpful) then (u1, helpful) on an empty store    *)
(* the summary of u1 is 2, 1, 1 and 1/2.                                   *)
(***************************************************************************)
\* The 100 most recent records of u are those later than the time T of the
\* 100th, and as many of the records written at T as fill the window.
WindowSize(u) == Min(Cardinality(UserDocs(u)), 100)

LaterThan(u, t) == {i \in UserDocs(u) : TimeOf(container[i]) > t}

WrittenAt(u, t) == {i \in UserDocs(u) : TimeOf(container[i]) = t}

WindowEdge(u) ==
    CHOOSE t \in {TimeOf(container[i]) : i \in UserDocs(u)} :
        /\ Cardinality(LaterThan(u, t)) < WindowSize(u)
        /\ Cardinality(LaterThan(u, t)) + Cardinality(WrittenAt(u, t)) >= WindowSize(u)

HelpfulIn(docs) == Cardinality({i \in docs : container[i].feedback})

HelpfulInWindowAtLeast(u) ==
    LET t    == WindowEdge(u)
        room == WindowSize(u) - Cardinality(LaterThan(u, t))
        edge == WrittenAt(u, t)
        over == room - (Cardinality(edge) - HelpfulIn(edge))
    IN  HelpfulIn(LaterThan(u, t)) + (IF over > 0 THEN over ELSE 0)

HelpfulInWindowAtMost(u) ==
    LET t    == WindowEdge(u)
        room == WindowSize(u) - Cardinality(LaterThan(u, t))
    IN  HelpfulIn(LaterThan(u, t)) + Min(room, HelpfulIn(WrittenAt(u, t)))

C6_SummaryOfWindow ==
    /\ \A u \in Users, tie \in TieOrders :
           LET s == GetFeedbackSummary(u, tie)
           IN  /\ UserDocs(u) # {} =>
                      /\ s.helpful_count >= HelpfulInWindowAtLeast(u)
                      /\ s.helpful_count <= HelpfulInWindowAtMost(u)
                      /\ s.total_interactions > 0
                      /\ s.helpful_ratio[2] > 0
                      /\ s.helpful_ratio[1] * s.total_interactions
                             = s.helpful_count * s.helpful_ratio[2]
               /\ UserDocs(u) = {} => s.helpful_count = 0 /\ s.helpful_ratio = <<0, 1>>
    /\ \A tie \in TieOrders :
           (/\ UserDocs("u1") = {1, 2} \cap DOMAIN container
            /\ Cardinality(UserDocs("u1")) = 2
            /\ ~container[1].feedback
            /\ container[2].feedback)
               => GetFeedbackSummary("u1", tie)
                      = [total_interactions |-> 2, helpful_count |-> 1,
                         not_helpful_count |-> 1, helpful_ratio |-> <<1, 2>>]

\* a helpful record has fallen out of the window of 100, and the two records
\* of the scenario are on an otherwise empty store
C6_WitnessWindow ==
    /\ Cardinality(UserDocs("u1")) > 100
    /\ HelpfulInWindowAtLeast("u1") = HelpfulInWindowAtMost("u1")
    /\ GetFeedbackSummary("u1", "id_asc").helpful_count < HelpfulIn(UserDocs("u1"))
    /\ GetFeedbackSummary("u1", "id_asc").helpful_count = HelpfulInWindowAtMost("u1")

C6_ScenarioReached ==
    /\ Len(container) = 2
    /\ nstores = 2
    /\ container[1].user_id = "u1" /\ ~container[1].feedback
    /\ container[2].user_id = "u1" /\ container[2].feedback
    /\ GetFeedbackSummary("u1", "id_desc").helpful_ratio = <<1, 2>>

(***************************************************************************)
(* C7: a non-empty feedback context of u consists of a statistics block    *)
(* (total, helpful, unhelpful, success rate of the summary) followed by    *)
(* at most 3 examples, which are the most recent helpful records of u with *)
(* their query and response unchanged; with 2 records of which 1 helpful   *)
(* it holds that one example and the rate 50.0%.                           *)
(***************************************************************************)
ExamplesAreMostRecentHelpful(u, ex) ==
    \E pick \in [1..Len(ex) -> HelpfulDocs(u)] :
        /\ \A i, j \in 1..Len(ex) : i # j => pick[i] # pick[j]
        /\ \A i \in 1..Len(ex) :
               /\ ex[i].kind = "example"
               /\ ex[i].query = container[pick[i]].query
               /\ ex[i].response = container[pick[i]].response
        /\ \A i \in 1..(Len(ex) - 1) :
               TimeOf(container[pick[i]]) >= TimeOf(container[pick[i + 1]])
        /\ \A d \in HelpfulDocs(u) \ {pick[i] : i \in 1..Len(ex)} :
               \A i \in 1..Len(ex) : TimeOf(container[d]) <= TimeOf(container[pick[i]])

C7_ScenarioReached ==
    /\ Cardinality(UserDocs("u2")) = 2
    /\ Cardinality(HelpfulDocs("u2")) = 1
    /\ BuildFeedbackContext("u2", "id_asc", "id_asc")[1].rate = 500

(***************************************************************************)
(* C8 as stated: the prompt forwarded by an ask is the user input alone    *)
(* when the feedback context is empty and the user input followed by the   *)
(* context otherwise, and every record of the user stored before the ask   *)
(* is counted in the statistics of the forwarded prompt.                   *)
(***************************************************************************)
ForwardedAsBuilt(f) ==
    /\ f.augmented_input[1] = Text(f.user_input)
    /\ f.feedback_context = <<>> => f.augmented_input = <<Text(f.user_input)>>
    /\ f.feedback_context # <<>> =>
           f.augmented_input
               = <<Text(f.user_input), ContextOpen>> \o f.feedback_context \o <<ContextClose>>

C8_EveryRecordReflected ==
    forwarded # None =>
        LET f == forwarded[1]
        IN  /\ ForwardedAsBuilt(f)
            /\ f.stored_before > 0 =>
                   /\ Len(f.augmented_input) >= 3
                   /\ f.augmented_input[3].kind = "statistics"
                   /\ f.augmented_input[3].total = f.stored_before

(***************************************************************************)
(* C8 amended: the prompt forwarded by an ask is the user input alone when *)
(* the feedback context is empty and the user input followed by the        *)
(* context otherwise; the context is computed anew at each ask, and its    *)
(* statistics count the records of the user stored before the ask up to   *)
(* the window of 100: the total is min(100, records stored before), and    *)
(* while the user has at most 100 records every one of them is counted,    *)
(* helpful ones as helpful.                                                *)
(***************************************************************************)
C8_ForwardedPrompt ==
    forwarded # None =>
        LET f == forwarded[1]
        IN  /\ ForwardedAsBuilt(f)
            /\ f.stored_before = 0 =>
                   \A i \in 1..Len(f.augmented_input) :
                       f.augmented_input[i].kind # "statistics"
            /\ f.stored_before > 0 =>
                   /\ Len(f.augmented_input) >= 3
                   /\ f.augmented_input[3].kind = "statistics"
                   /\ f.augmented_input[3].total = Min(100, f.stored_before)
                   /\ f.augmented_input[3].helpful + f.augmented_input[3].unhelpful
                          = f.augmented_input[3].total
                   /\ f.stored_before <= 100 =>
                          f.augmented_input[3].helpful = f.helpful_before

\* a second ask, made after two records were stored, counts both
C8_Witness ==
    /\ forwarded # None
    /\ nasks = 2
    /\ nstores = 2
    /\ forwarded[1].stored_before = 2
    /\ forwarded[1].helpful_before = 1
    /\ forwarded[1].augmented_input[3].total = 2
    /\ forwarded[1].augmented_input[3].helpful = 1

(***************************************************************************)
(* C9: when the extraction of the rating raises or returns no value, the   *)
(* call of invoked leaves every field of the preferences as it was and     *)
(* lets no exception out.                                                  *)
(***************************************************************************)
C9_FailedExtractionChangesNothing ==
    [][(lastCall'.op = "invoked" /\ lastCall'.extraction \in {"raised", "no_value"})
           => /\ preferences'.technical_depth = preferences.technical_depth
              /\ preferences'.response_length = preferences.response_length
              /\ preferences'.prefer_examples = preferences.prefer_examples
              /\ preferences'.feedback_count = preferences.feedback_count
              /\ preferences'.positive_feedback = preferences.positive_feedback
              /\ ~lastCall'.surfaced]_vars

\* an extraction has failed on a policy that earlier ratings had changed
C9_Witness ==
    /\ lastCall.op = "invoked"
    /\ lastCall.extraction = "raised"
    /\ ~lastCall.surfaced
    /\ preferences.feedback_count = 2
    /\ preferences.positive_feedback = 1
    /\ preferences.technical_depth = "advanced"
    /\ preferences.response_length = "concise"

(***************************************************************************)
(* C10: each time a rating r in 1..5 is obtained, feedback_count grows by  *)
(* exactly 1 and positive_feedback grows by exactly 1 if r >= 4 and stays  *)
(* as it was if r <= 3, with or without a suggestion.                      *)
(***************************************************************************)
C10_RatingCounted ==
    [][(lastCall'.op = "invoked" /\ lastCall'.extraction = "rated")
           => /\ lastCall'.rating \in 1..5
              /\ preferences'.feedback_count = preferences.feedback_count + 1
              /\ lastCall'.rating >= 4 =>
                     preferences'.positive_feedback = preferences.positive_feedback + 1
              /\ lastCall'.rating <= 3 =>
                     preferences'.positive_feedback = preferences.positive_feedback]_vars

\* a rating of 4 without a suggestion has counted as positive after a rating
\* below 4 had not
C10_Witness ==
    /\ lastCall.op = "invoked"
    /\ lastCall.extraction = "rated"
    /\ lastCall.rating = 4
    /\ ~lastCall.suggested
    /\ preferences.feedback_count = 2
    /\ preferences.positive_feedback = 1

(***************************************************************************)
(* Vocabulary of the keyword properties: the keywords a suggestion         *)
(* mentions, in whatever case it is written, found by comparing every      *)
(* window of the text with the keyword letter by letter.                   *)
(***************************************************************************)
DepthKeywords == {"advanced", "simpler", "basic"}
LengthKeywords == {"more detailed", "more code", "shorter", "concise"}

SameLetter(c, d) ==
    \/ c = d
    \/ \E i \in 1..Len(UpperCase) :
           {c, d} = {SubSeq(UpperCase, i, i), SubSeq(LowerCase, i, i)}

Mentions(keyword, text) ==
    \E i \in 0..(Len(text) - Len(keyword)) :
        \A j \in 1..Len(keyword) :
            SameLetter(SubSeq(text, i + j, i + j), SubSeq(keyword, j, j))

MentionedIn ==
    [t \in SuggestionTexts |->
        {k \in DepthKeywords \cup LengthKeywords : Mentions(k, t)}]

KeywordsOf(suggestion) == IF suggestion = None THEN {} ELSE MentionedIn[suggestion[1]]

Suggesting(t) == [rating |-> PositiveRating, suggestion |-> Some(t)]

FirstMention(keyword, text) ==
    CHOOSE i \in 0..(Len(text) - Len(keyword)) :
        /\ \A j \in 1..Len(keyword) :
               SameLetter(SubSeq(text, i + j, i + j), SubSeq(keyword, j, j))
        /\ \A h \in 0..(i - 1) :
               \E j \in 1..Len(keyword) :
                   ~SameLetter(SubSeq(text, h + j, h + j), SubSeq(keyword, j, j))

C12_FixedOrderOfChecks ==
    LET once == {<<t, UpdatePolicy(preferences, Suggesting(t))>> : t \in SuggestionTexts}
    IN  /\ \A o \in once :
               /\ ("advanced" \in MentionedIn[o[1]]
                      /\ MentionedIn[o[1]] \cap {"simpler", "basic"} # {})
                      => o[2].technical_depth = "advanced"
               /\ (MentionedIn[o[1]] \cap {"more detailed", "more code"} # {}
                      /\ MentionedIn[o[1]] \cap {"shorter", "concise"} # {})
                      => o[2].response_length = "detailed"
        /\ \A o1 \in once, o2 \in once :
               /\ MentionedIn[o1[1]] \cap DepthKeywords = MentionedIn[o2[1]] \cap DepthKeywords
                      => o1[2].technical_depth = o2[2].technical_depth
               /\ MentionedIn[o1[1]] \cap LengthKeywords = MentionedIn[o2[1]] \cap LengthKeywords
                      => o1[2].response_length = o2[2].response_length

\* a rated suggestion has been taken in, and the policy stands where the
\* keyword that comes later in the text decides against its present value
C12_Witness ==
    /\ lastCall.op = "invoked"
    /\ lastCall.extraction = "rated"
    /\ lastCall.suggested
    /\ preferences.feedback_count = 1
    /\ preferences.technical_depth = "basic"
    /\ preferences.response_length = "concise"
    /\ FirstMention("simpler", "simpler, not ADVANCED")
           < FirstMention("advanced", "simpler, not ADVANCED")
    /\ FirstMention("concise", "concise with more code")
           < FirstMention("more code", "concise with more code")
    /\ UpdatePolicy(preferences, Suggesting("simpler, not ADVANCED")).technical_depth
           = "advanced"
    /\ UpdatePolicy(preferences, Suggesting("concise with more code")).response_length
           = "detailed"
    /\ UpdatePolicy(preferences, Suggesting("shorter and basic")).technical_depth = "basic"

(***************************************************************************)
(* SpecStorage: store_feedback calls, made on the store or through an      *)
(* agent, while the storage is at times unavailable.                       *)
(***************************************************************************)
InitStorage ==
    /\ container \in {<<>>, ExistingContainer(SeedCount)}
    /\ clockBase = 0
    /\ nstores = 0
    /\ lastStore = None
    /\ writes = 0
    /\ storeResult = None
    /\ tieOrder = "id_asc"
    /\ lastRead = None
    /\ inflight = [a \in Agents |-> None]
    /\ AgentsConstructed
    /\ ProviderConstructed
    /\ SamplesNotRun

StoreUnavailable ==
    \E user_id \in Users, x \in Exchanges, feedback \in BOOLEAN, d \in 0..MaxClock :
        /\ StoreFeedbackUnavailable(user_id, x[1], x[2], feedback, None, clockBase + d)
        /\ UNCHANGED <<agentVars, policyVars, sampleVars>>

NextStorage ==
    \/ Store
    \/ StoreUnavailable
    \/ \E a \in {"a1", "a3"}, is_helpful \in BOOLEAN, d \in {0, MaxClock} :
           AgentStoreFeedback(a, "q1", "r1", is_helpful, clockBase + d)
    \/ \E a \in {"a1", "a3"}, is_helpful \in BOOLEAN, d \in {0, MaxClock} :
           AgentStoreFeedbackUnavailable(a, "q1", "r1", is_helpful, clockBase + d)

SpecStorage == InitStorage /\ [][NextStorage]_vars

(***************************************************************************)
(* C13: every store call makes exactly one create_item call; when the      *)
(* storage is unavailable the call raises, the container is left as it     *)
(* was and no identifier is returned; when the write succeeds the call     *)
(* does not raise, exactly one document is added and its identifier is     *)
(* the one returned.                                                       *)
(***************************************************************************)
C13_OneWritePerStore ==
    [][nstores' # nstores =>
           /\ nstores' = nstores + 1
           /\ writes' = writes + 1
           /\ storeResult' # None
           /\ LET r == storeResult'[1]
              IN  /\ r.raised = ~r.written
                  /\ r.raised => /\ container' = container
                                 /\ r.feedback_id = None
                  /\ r.feedback_id # None =>
                         /\ r.written
                         /\ Len(container') = Len(container) + 1
                         /\ SubSeq(container', 1, Len(container)) = container
                         /\ container'[Len(container')].id = r.feedback_id[1]
                         /\ \A i \in DOMAIN container :
                                container[i].id # r.feedback_id[1]
                  /\ ~r.raised => r.feedback_id # None]_vars

\* a store call has failed after another one had succeeded
C13_Witness ==
    /\ nstores = 2
    /\ writes = 2
    /\ storeResult # None
    /\ storeResult[1].raised
    /\ storeResult[1].feedback_id = None
    /\ Len(container) = 1
    /\ lastStore # None

(***************************************************************************)
(* C14: an ask calls agent.run at most once, exactly once when it returns; *)
(* the step in which the ask ends, with a response or with the exception   *)
(* of agent.run, changes nothing but the position of the session: the      *)
(* container, the thread and the number of agent.run calls are as they     *)
(* were; after a failed ask the session is idle again, its next ask        *)
(* forwards the prompt built from the records then stored, and its next    *)
(* store adds its record.                                                  *)
(***************************************************************************)
AskFailed == reply # None /\ reply[1].raised

C14_FailedAskScoped ==
    /\ [](/\ nruns <= nasks
          /\ (\A a \in Agents : pc[a] = "idle") => nruns = nasks)
    /\ [][\A a \in Agents :
              /\ (pc[a] = "running" /\ pc'[a] # "running") =>
                     /\ pc'[a] = "idle"
                     /\ reply' # None /\ reply'[1].agent = a
                     /\ pending'[a] = None
                     /\ UNCHANGED <<storeVars, thread, nthreads, forwarded, nasks, nruns>>
              /\ (AskFailed /\ pc[a] = "summarized" /\ pc'[a] = "running") =>
                     LET f == forwarded'[1]
                     IN  /\ nruns' = nruns + 1
                         /\ f.agent = a
                         /\ ForwardedAsBuilt(f)
                         /\ f.stored_before > 0 =>
                                f.augmented_input[3].total = Min(100, f.stored_before)
                         /\ f.stored_before = 0 =>
                                f.augmented_input[1] = Text(f.user_input)
              /\ (AskFailed /\ nstores' # nstores) =>
                     /\ container' = Append(container, container'[Len(container')])
                     /\ reply' = reply]_vars

\* after an ask that failed, a record was stored and the next ask of the
\* session has forwarded a prompt that counts it
C14_Witness ==
    /\ AskFailed
    /\ nasks = 2
    /\ nruns = 2
    /\ pc["a1"] = "running"
    /\ Len(container) = 1
    /\ forwarded[1].stored_before = 1
    /\ forwarded[1].augmented_input[3].total = 1

(***************************************************************************)
(* The read operations of FeedbackStore as calls: each runs its query and  *)
(* returns the result; stored is the number of documents the container     *)
(* held when the query ran.                                                *)
(***************************************************************************)
ReadResult(op, user_id, limit, result) ==
    [op |-> op, user_id |-> user_id, limit |-> limit, result |-> result,
     stored |-> Len(container)]

ReadUserFeedbackHistory(user_id, limit) ==
    /\ lastRead' = Some(ReadResult("get_user_feedback_history", user_id, limit,
                                   GetUserFeedbackHistory(user_id, limit, tieOrder)))
    /\ UNCHANGED <<container, clockBase, nstores, lastStore, writes, storeResult, tieOrder,
                   inflight>>
    /\ UNCHANGED <<agentVars, policyVars, sampleVars>>

ReadHelpfulFeedback(user_id, limit) ==
    /\ lastRead' = Some(ReadResult("get_helpful_feedback", user_id, limit,
                                   GetHelpfulFeedback(user_id, limit, tieOrder)))
    /\ UNCHANGED <<container, clockBase, nstores, lastStore, writes, storeResult, tieOrder,
                   inflight>>
    /\ UNCHANGED <<agentVars, policyVars, sampleVars>>

\* variant: the summary keeps a record of having been read
ReadFeedbackSummaryLogged(user_id) ==
    /\ lastRead' = Some(ReadResult("get_feedback_summary", user_id, SummaryWindow,
                                   GetFeedbackSummary(user_id, tieOrder)))
    /\ container' = Append(container,
                           FeedbackItem(user_id, "summary", "", FALSE, None, clockBase))
    /\ UNCHANGED <<clockBase, nstores, lastStore, writes, storeResult, tieOrder, inflight>>
    /\ UNCHANGED <<agentVars, policyVars, sampleVars>>

ReadFeedbackSummary(user_id) ==
    /\ lastRead' = Some(ReadResult("get_feedback_summary", user_id, SummaryWindow,
                                   GetFeedbackSummary(user_id, tieOrder)))
    /\ UNCHANGED <<container, clockBase, nstores, lastStore, writes, storeResult, tieOrder,
                   inflight>>
    /\ UNCHANGED <<agentVars, policyVars, sampleVars>>

(***************************************************************************)
(* SpecReads: stores, reads and asks in any order, on a small container    *)
(* that holds documents of one of the users, under either order of equal   *)
(* timestamps.                                                             *)
(***************************************************************************)
InitReads ==
    /\ container = ExistingContainer(SeedCount)
    /\ clockBase = 0
    /\ nstores = 0
    /\ lastStore = None
    /\ writes = 0
    /\ storeResult = None
    /\ tieOrder \in TieOrders
    /\ lastRead = None
    /\ inflight = [a \in Agents |-> None]
    /\ AgentsConstructed
    /\ ProviderConstructed
    /\ SamplesNotRun

NextReads ==
    \/ \E a \in {"a2", "a3"}, is_helpful \in BOOLEAN :
           AgentStoreFeedback(a, "q1", "r1", is_helpful, clockBase + MaxClock)
    \/ \E user_id \in Users : ReadUserFeedbackHistory(user_id, DefaultHistoryLimit)
    \/ \E user_id \in Users : ReadHelpfulFeedback(user_id, DefaultHelpfulLimit)
    \/ \E user_id \in Users : ReadFeedbackSummary(user_id)
    \/ QuerySummary("a1", "q1")
    \/ QueryForward("a1")
    \/ QueryReturn("a1")

SpecReads == InitReads /\ [][NextReads]_vars

(***************************************************************************)
(* C15: in every step a document the container holds stays where it is     *)
(* and as it is; a step of a read operation or of an ask leaves the        *)
(* container as it was; a store that succeeds adds exactly one document,   *)
(* at the end.                                                             *)
(***************************************************************************)
C15_AppendOnly ==
    [][/\ \A i \in DOMAIN container :
              i \in DOMAIN container' /\ container'[i] = container[i]
       /\ (lastRead' # lastRead \/ pc' # pc \/ thread' # thread \/ forwarded' # forwarded)
              => container' = container
       /\ (nstores' # nstores /\ storeResult'[1].written)
              => /\ Len(container') = Len(container) + 1
                 /\ SubSeq(container', 1, Len(container)) = container]_vars

\* reads and an ask have run between two stores of the same user and query
C15_Witness ==
    /\ nstores = 2
    /\ Len(container) = SeedCount + 2
    /\ container[SeedCount + 1].user_id = container[SeedCount + 2].user_id
    /\ container[SeedCount + 1].query = container[SeedCount + 2].query
    /\ lastRead # None
    /\ lastRead[1].stored = SeedCount + 1
    /\ forwarded # None
    /\ forwarded[1].stored_before = SeedCount + 1

(***************************************************************************)
(* SpecPartition: the sessions of two users store feedback in one          *)
(* container, two of the sessions being of the same user.                  *)
(***************************************************************************)
InitPartition ==
    /\ container \in {<<>>, ExistingContainer(SeedCount)}
    /\ clockBase = 0
    /\ nstores = 0
    /\ lastStore = None
    /\ writes = 0
    /\ storeResult = None
    /\ tieOrder = "id_asc"
    /\ lastRead = None
    /\ inflight = [a \in Agents |-> None]
    /\ AgentsConstructed
    /\ ProviderConstructed
    /\ SamplesNotRun

NextPartition ==
    \E a \in Agents, is_helpful \in BOOLEAN, d \in {0, MaxClock} :
        AgentStoreFeedback(a, "q1", "r1", is_helpful, clockBase + d)

SpecPartition == InitPartition /\ [][NextPartition]_vars

(***************************************************************************)
(* C16: the recent history, the helpful examples, the summary and the      *)
(* feedback context of a user u are those computed from the documents of   *)
(* u alone; a store for a user v leaves the documents of every other user  *)
(* as they were and adds its document to those of v, which is the user of  *)
(* the session that stored it, so every session of v reads it.             *)
(***************************************************************************)
PartitionLimits == {1, DefaultHelpfulLimit, DefaultHistoryLimit, SummaryWindow}

\* the documents of user u, in insertion order
PartitionOf(u) == SelectSeq(container, LAMBDA c : c.user_id = u)

\* the query evaluated on these documents and no others
QueryOver(docs, onlyHelpful, limit, tie) ==
    LET selected == SelectSeq(docs, LAMBDA c : onlyHelpful => c.feedback)
        ordered  == SortSeq(selected, LAMBDA a, b : OrderedBefore(a, b, tie))
    IN  SubSeq(ordered, 1, Min(limit, Len(ordered)))

C16_PartitionedByUser ==
    /\ [](\A u \in Users, tie \in TieOrders :
              /\ \A limit \in PartitionLimits :
                     /\ GetUserFeedbackHistory(u, limit, tie)
                            = QueryOver(PartitionOf(u), FALSE, limit, tie)
                     /\ GetHelpfulFeedback(u, limit, tie)
                            = QueryOver(PartitionOf(u), TRUE, limit, tie)
              /\ LET h == QueryOver(PartitionOf(u), FALSE, SummaryWindow, tie)
                     s == GetFeedbackSummary(u, tie)
                 IN  /\ s.total_interactions = Len(h)
                     /\ s.helpful_count = CountHelpful(h)
                     /\ s.not_helpful_count = Len(h) - CountHelpful(h)
                     /\ \A t2 \in TieOrders :
                            BuildFeedbackContext(u, tie, t2)
                                = ContextParts(s, QueryOver(PartitionOf(u), TRUE,
                                                            ExampleLimit, t2)))
    /\ [][(nstores' # nstores /\ Len(container') = Len(container) + 1) =>
              LET new == container'[Len(container')]
              IN  /\ new.user_id \in {UserOf(a) : a \in Agents}
                  /\ \A u \in Users :
                         /\ u # new.user_id => PartitionOf(u)' = PartitionOf(u)
                         /\ u = new.user_id => PartitionOf(u)' = Append(PartitionOf(u), new)]_vars

\* both users have stored a record on a container that held records of one
\* of them, and each user's summary counts that user's records
C16_Witness ==
    /\ nstores = 2
    /\ Cardinality(UserDocs("u1")) = SeedCount + 1
    /\ Cardinality(UserDocs("u2")) = 1
    /\ GetFeedbackSummary("u1", "id_asc").total_interactions = SeedCount + 1
    /\ GetFeedbackSummary("u2", "id_asc").total_interactions = 1
    /\ Len(GetUserFeedbackHistory("u2", DefaultHistoryLimit, "id_asc")) = 1

(***************************************************************************)
(* store_feedback as other processes see it, in two steps: the document is *)
(* built (lines 35-44: the uuid4 identifier is drawn, the clock is read),  *)
(* then create_item writes it (line 46).                                   *)
(***************************************************************************)
AgentStoreFeedbackBuild(a, query, response, is_helpful, now) ==
    /\ pc[a] = "idle"
    /\ inflight[a] = None
    /\ nstores < MaxStores
    /\ nstores' = nstores + 1
    /\ inflight' = [inflight EXCEPT ![a] =
           Some(FeedbackItem(UserOf(a), query, response, is_helpful,
                             Some(SessionContext(is_helpful)), now))]
    /\ UNCHANGED <<container, clockBase, lastStore, writes, storeResult, tieOrder, lastRead>>
    /\ UNCHANGED <<agentVars, policyVars, sampleVars>>

\* variant: nothing written when the user already has a record of the query
AgentStoreFeedbackCreateOnce(a) ==
    /\ inflight[a] # None
    /\ LET item == inflight[a][1]
           same == {i \in DOMAIN container : /\ container[i].user_id = item.user_id
                                             /\ container[i].query = item.query}
       IN  /\ container' = IF same = {} THEN Append(container, item) ELSE container
           /\ lastStore' = Some([user_id |-> item.user_id, query |-> item.query,
                                 response |-> item.response, feedback |-> item.feedback,
                                 now |-> ParseIso(item.timestamp)])
           /\ storeResult' = Some([written |-> TRUE, raised |-> FALSE,
                                   feedback_id |-> Some(item.id)])
    /\ writes' = writes + 1
    /\ inflight' = [inflight EXCEPT ![a] = None]
    /\ UNCHANGED <<clockBase, nstores, tieOrder, lastRead>>
    /\ UNCHANGED <<agentVars, policyVars, sampleVars>>

AgentStoreFeedbackCreate(a) ==
    /\ inflight[a] # None
    /\ LET item == inflight[a][1]
       IN  /\ container' = Append(container, item)
           /\ lastStore' = Some([user_id |-> item.user_id, query |-> item.query,
                                 response |-> item.response, feedback |-> item.feedback,
                                 now |-> ParseIso(item.timestamp)])
           /\ storeResult' = Some([written |-> TRUE, raised |-> FALSE,
                                   feedback_id |-> Some(item.id)])
    /\ writes' = writes + 1
    /\ inflight' = [inflight EXCEPT ![a] = None]
    /\ UNCHANGED <<clockBase, nstores, tieOrder, lastRead>>
    /\ UNCHANGED <<agentVars, policyVars, sampleVars>>

(***************************************************************************)
(* SpecConcurrent: two sessions of user u1, each in its own process, store *)
(* feedback on the same query at the same time, and the summary of u1 is   *)
(* read.                                                                   *)
(***************************************************************************)
InitConcurrent ==
    /\ container \in {<<>>, ExistingContainer(SeedCount)}
    /\ clockBase = 0
    /\ nstores = 0
    /\ lastStore = None
    /\ writes = 0
    /\ storeResult = None
    /\ tieOrder \in TieOrders
    /\ lastRead = None
    /\ inflight = [a \in Agents |-> None]
    /\ AgentsConstructed
    /\ ProviderConstructed
    /\ SamplesNotRun

NextConcurrent ==
    \/ \E a \in Writers, is_helpful \in BOOLEAN, d \in {0, MaxClock} :
           AgentStoreFeedbackBuild(a, "q1", "r1", is_helpful, clockBase + d)
    \/ \E a \in Writers : AgentStoreFeedbackCreate(a)
    \/ ReadFeedbackSummary("u1")

SpecConcurrent == InitConcurrent /\ [][NextConcurrent]_vars

(***************************************************************************)
(* C17: when two processes store feedback of the same user on the same     *)
(* query at the same time, each create_item adds its document, so both     *)
(* are in the container, under different identifiers; and a summary read   *)
(* after the stores have completed counts every one of them.               *)
(***************************************************************************)
\* the documents stored through an agent
StoredBySessions == {i \in DOMAIN container : container[i].context # {}}

C17_ConcurrentStoresKept ==
    /\ [](/\ \A i, j \in DOMAIN container :
                 i # j => container[i].id # container[j].id
          /\ Cardinality(StoredBySessions) = writes
          /\ (\A a \in Agents : inflight[a] = None) =>
                 /\ writes = nstores
                 /\ \A tie \in TieOrders :
                        GetFeedbackSummary("u1", tie).total_interactions
                            = Min(SummaryWindow, Cardinality(UserDocs("u1")))
          /\ (lastRead # None /\ lastRead[1].op = "get_feedback_summary") =>
                 lastRead[1].result.total_interactions
                     = Min(SummaryWindow, lastRead[1].stored))
    /\ [][\A a \in Agents :
              (inflight[a] # None /\ inflight'[a] = None) =>
                  /\ container' = Append(container, inflight[a][1])
                  /\ storeResult'[1].feedback_id = Some(inflight[a][1].id)]_vars

\* two stores of the same user and query were in progress at the same time
\* (the document built second was written first), and the summary read after
\* both had completed counts both
C17_Witness ==
    /\ writes = 2
    /\ \A a \in Agents : inflight[a] = None
    /\ Len(container) = 2
    /\ container[1].user_id = container[2].user_id
    /\ container[1].query = container[2].query
    /\ container[1].id > container[2].id
    /\ lastRead # None
    /\ lastRead[1].stored = 2
    /\ lastRead[1].result.total_interactions = 2

(***************************************************************************)
(* C18: starting from the default policy, after any sequence of calls of   *)
(* the provider, technical_depth is one of basic, medium, advanced,        *)
(* response_length is one of concise, balanced, detailed, prefer_examples  *)
(* is a boolean, and feedback_count and positive_feedback are non-negative *)
(* integers.                                                               *)
(***************************************************************************)
C18_PolicyDomain ==
    /\ preferences.technical_depth \in {"basic", "medium", "advanced"}
    /\ preferences.response_length \in {"concise", "balanced", "detailed"}
    /\ preferences.prefer_examples \in BOOLEAN
    /\ preferences.feedback_count \in Nat
    /\ preferences.positive_feedback \in Nat

\* ratings with suggestions have moved every attribute off its default
C18_Witness ==
    /\ preferences.feedback_count = MaxFeedback
    /\ preferences.positive_feedback = 2
    /\ preferences.technical_depth = "basic"
    /\ preferences.response_length = "detailed"
    /\ lastCall.op = "invoking"

(***************************************************************************)
(* C19: a call of get_feedback_summary leaves the container as it was, and *)
(* when it follows another call for the same user with no store completed  *)
(* in between, it returns what that call returned.                         *)
(***************************************************************************)
SummaryRead(r) == r # None /\ r[1].op = "get_feedback_summary"

C20_OneThreadPerSession ==
    /\ [](/\ nthreads = Cardinality({a \in Agents : thread[a] # 0})
          /\ \A a \in Agents :
                 /\ pc[a] \in {"summarized", "running"} => thread[a] # 0
                 /\ (thread[a] = 0) => (pc[a] = "idle" /\ pending[a] = None)
          /\ forwarded # None =>
                 /\ forwarded[1].thread # 0
                 /\ forwarded[1].thread = thread[forwarded[1].agent]
          /\ (nasks = 0 /\ nthreads = 0) => \A a \in Agents : thread[a] = 0)
    /\ [][\A a \in Agents :
              /\ thread'[a] # thread[a] =>
                     /\ thread[a] = 0
                     /\ thread'[a] # 0
                     /\ \A b \in Agents \ {a} : thread'[b] = thread[b] /\ thread[b] # thread'[a]
                     /\ nthreads' = nthreads + 1
                     /\ pc[a] = "idle"
                     /\ (pc'[a] = "summarized" /\ nasks' = nasks + 1)
                            \/ (pc' = pc /\ nasks' = nasks /\ forwarded' = forwarded)
              /\ (pc[a] = "summarized" /\ pc'[a] = "running") =>
                     /\ forwarded'[1].thread = thread[a]
                     /\ thread' = thread
                     /\ (forwarded # None /\ forwarded[1].agent = a)
                            => forwarded'[1].thread = forwarded[1].thread]_vars

\* the second ask of a session has passed the thread its first ask passed
C20_Witness ==
    /\ nasks = 2
    /\ nruns = 2
    /\ nthreads = 1
    /\ thread["a1"] = 1
    /\ forwarded # None
    /\ forwarded[1].agent = "a1"
    /\ forwarded[1].thread = 1
    /\ reply # None /\ ~reply[1].raised

(***************************************************************************)
(* DevUISample/agents/assistant_agent/__init__.py: the calculate tool.     *)
(* An expression is a string of characters.                                *)
(***************************************************************************)
Digits == "0123456789"

CharsOf(s) == {SubSeq(s, i, i) : i \in 1..Len(s)}

SAFE_CHARS == CharsOf("0123456789+-*/()., ")

\* the condition of the first if
Unsafe(expr) == Contains("**", expr) \/ ~(\A c \in CharsOf(expr) : c \in SAFE_CHARS)

(***************************************************************************)
(* eval(expression, {"__builtins__": {}}) on expressions written with      *)
(* digits, + - * / ( ) and spaces: the tokens, the syntax tree, its value.  *)
(* A number is the fraction num/den; a float is kept exact.                *)
(***************************************************************************)
IsDigit(c) == c \in CharsOf(Digits)

DigitValue(c) == (CHOOSE i \in 1..Len(Digits) : SubSeq(Digits, i, i) = c) - 1

RECURSIVE Decimal(_)
Decimal(digits) ==
    IF Len(digits) = 0 THEN 0
    ELSE 10 * Decimal(SubSeq(digits, 1, Len(digits) - 1))
             + DigitValue(SubSeq(digits, Len(digits), Len(digits)))

\* the index after the run of digits of s that starts at i
RECURSIVE DigitRunEnd(_, _)
DigitRunEnd(s, i) ==
    IF i <= Len(s) /\ IsDigit(SubSeq(s, i, i)) THEN DigitRunEnd(s, i + 1) ELSE i

\* a decimal integer other than zero must not start with 0
NumberToken(digits) ==
    IF SubSeq(digits, 1, 1) = "0" /\ Decimal(digits) # 0
    THEN [t |-> "invalid", v |-> 0]
    ELSE [t |-> "number", v |-> Decimal(digits)]

RECURSIVE Tokens(_, _)
Tokens(s, i) ==
    IF i > Len(s) THEN <<>>
    ELSE LET c == SubSeq(s, i, i)
             two == IF i < Len(s) THEN SubSeq(s, i, i + 1) ELSE ""
         IN  CASE c = " " -> Tokens(s, i + 1)
               [] IsDigit(c) ->
                      <<NumberToken(SubSeq(s, i, DigitRunEnd(s, i) - 1))>>
                          \o Tokens(s, DigitRunEnd(s, i))
               [] two \in {"//", "**"} -> <<[t |-> two, v |-> 0]>> \o Tokens(s, i + 2)
               [] c \in {"+", "-", "*", "/", "(", ")"} /\ two \notin {"//", "**"} ->
                      <<[t |-> c, v |-> 0]>> \o Tokens(s, i + 1)

TokenAt(ts, i) == IF i <= Len(ts) THEN ts[i].t ELSE "end"

NoParse == [ok |-> FALSE, ast |-> [op |-> "none"], next |-> 0]
Parsed(ast, next) == [ok |-> TRUE, ast |-> ast, next |-> next]

RECURSIVE ParseSum(_, _)
RECURSIVE ParseSumRest(_, _, _)
RECURSIVE ParseTerm(_, _)
RECURSIVE ParseTermRest(_, _, _)
RECURSIVE ParseFactor(_, _)
RECURSIVE ParseTrailers(_, _, _)

\* NUMBER | '(' ')' | '(' expression ')'
ParseAtom(ts, i) ==
    CASE TokenAt(ts, i) = "number" -> Parsed([op |-> "number", v |-> ts[i].v], i + 1)
      [] TokenAt(ts, i) = "(" /\ TokenAt(ts, i + 1) = ")" -> Parsed([op |-> "tuple"], i + 2)
      [] TokenAt(ts, i) = "(" /\ TokenAt(ts, i + 1) # ")" ->
             LET e == ParseSum(ts, i + 1)
             IN  IF e.ok /\ TokenAt(ts, e.next) = ")" THEN Parsed(e.ast, e.next + 1)
                 ELSE NoParse
      [] OTHER -> NoParse

\* primary: atom ( '(' [ ['*'] expression ] ')' )*
ParseTrailers(ts, callee, i) ==
    IF TokenAt(ts, i) # "(" THEN Parsed(callee, i)
    ELSE IF TokenAt(ts, i + 1) = ")"
         THEN ParseTrailers(ts, [op |-> "call", f |-> callee, args |-> <<>>], i + 2)
         ELSE LET from == IF TokenAt(ts, i + 1) = "*" THEN i + 2 ELSE i + 1
                  e == ParseSum(ts, from)
              IN  IF e.ok /\ TokenAt(ts, e.next) = ")"
                  THEN ParseTrailers(ts, [op |-> "call", f |-> callee, args |-> <<e.ast>>],
                                     e.next + 1)
                  ELSE NoParse

ParsePrimary(ts, i) ==
    LET a == ParseAtom(ts, i) IN IF a.ok THEN ParseTrailers(ts, a.ast, a.next) ELSE NoParse

\* factor: ('+' | '-') factor | primary
ParseFactor(ts, i) ==
    IF TokenAt(ts, i) \in {"+", "-"}
    THEN LET x == ParseFactor(ts, i + 1)
         IN  IF x.ok THEN Parsed([op |-> "unary", o |-> ts[i].t, x |-> x.ast], x.next)
             ELSE NoParse
    ELSE ParsePrimary(ts, i)

\* term: factor (('*' | '/' | '//') factor)*
ParseTermRest(ts, left, i) ==
    IF TokenAt(ts, i) \in {"*", "/", "//"}
    THEN LET r == ParseFactor(ts, i + 1)
         IN  IF r.ok
             THEN ParseTermRest(ts, [op |-> "binary", o |-> ts[i].t, l |-> left, r |-> r.ast],
                                r.next)
             ELSE NoParse
    ELSE Parsed(left, i)

ParseTerm(ts, i) ==
    LET x == ParseFactor(ts, i) IN IF x.ok THEN ParseTermRest(ts, x.ast, x.next) ELSE NoParse

\* sum: term (('+' | '-') term)*
ParseSumRest(ts, left, i) ==
    IF TokenAt(ts, i) \in {"+", "-"}
    THEN LET r == ParseTerm(ts, i + 1)
         IN  IF r.ok
             THEN ParseSumRest(ts, [op |-> "binary", o |-> ts[i].t, l |-> left, r |-> r.ast],
                               r.next)
             ELSE NoParse
    ELSE Parsed(left, i)

ParseSum(ts, i) ==
    LET x == ParseTerm(ts, i) IN IF x.ok THEN ParseSumRest(ts, x.ast, x.next) ELSE NoParse

\* the whole input is one expression
ParseExpression(s) ==
    LET ts == Tokens(s, 1)
        e == ParseSum(ts, 1)
    IN  IF e.ok /\ e.next = Len(ts) + 1 THEN e ELSE NoParse

Abs(n) == IF n < 0 THEN 0 - n ELSE n

Value(type, num, den) ==
    LET g == Gcd(Abs(num), Abs(den))
        sign == IF den < 0 THEN 0 - 1 ELSE 1
    IN  [raises |-> "", type |-> type, num |-> sign * (num \div g), den |-> sign * (den \div g)]

EmptyTuple == [raises |-> "", type |-> "tuple", num |-> 0, den |-> 1]
Raises(class) == [raises |-> class, type |-> "none", num |-> 0, den |-> 1]

Floor(num, den) == num \div den

NumberType(o, a, b) ==
    IF o = "/" \/ a.type = "float" \/ b.type = "float" THEN "float" ELSE "int"

\* a o b for two values
Binary(o, a, b) ==
    IF a.type = "tuple" \/ b.type = "tuple"
    THEN IF (o = "+" /\ a.type = "tuple" /\ b.type = "tuple")
             \/ (o = "*" /\ {a.type, b.type} = {"tuple", "int"})
         THEN EmptyTuple
         ELSE Raises("TypeError")
    ELSE CASE o = "+" -> Value(NumberType(o, a, b), a.num * b.den + b.num * a.den, a.den * b.den)
           [] o = "-" -> Value(NumberType(o, a, b), a.num * b.den - b.num * a.den, a.den * b.den)
           [] o = "*" -> Value(NumberType(o, a, b), a.num * b.num, a.den * b.den)
           [] o = "/" -> IF b.num = 0 THEN Raises("ZeroDivisionError")
                         ELSE Value("float", a.num * b.den, a.den * b.num)
           [] o = "//" -> IF b.num = 0 THEN Raises("ZeroDivisionError")
                          ELSE LET q == Value("int", a.num * b.den, a.den * b.num)
                               IN  Value(NumberType(o, a, b), Floor(q.num, q.den), 1)

RECURSIVE EvalTree(_)
EvalTree(ast) ==
    CASE ast.op = "number" -> Value("int", ast.v, 1)
      [] ast.op = "tuple" -> EmptyTuple
      [] ast.op = "unary" ->
             LET x == EvalTree(ast.x)
             IN  IF x.raises # "" THEN x
                 ELSE IF x.type = "tuple" THEN Raises("TypeError")
                 ELSE IF ast.o = "-" THEN Value(x.type, 0 - x.num, x.den) ELSE x
      [] ast.op = "binary" ->
             LET a == EvalTree(ast.l)
                 b == EvalTree(ast.r)
             IN  IF a.raises # "" THEN a
                 ELSE IF b.raises # "" THEN b
                 ELSE Binary(ast.o, a, b)
      [] ast.op = "call" ->
             LET f == EvalTree(ast.f)
                 raising == SelectSeq(ast.args, LAMBDA x : EvalTree(x).raises # "")
             IN  IF f.raises # "" THEN f
                 ELSE IF raising # <<>> THEN EvalTree(raising[1])
                 ELSE Raises("TypeError")

\* eval: the exception it raises, or its value
Eval(s) ==
    LET e == ParseExpression(s)
    IN  IF e.ok THEN EvalTree(e.ast) ELSE Raises("SyntaxError")


\* the classes that "except Exception" catches
Exceptions ==
    {"SyntaxError", "TypeError", "ZeroDivisionError", "OverflowError", "ValueError",
     "MemoryError", "RecursionError"}

NoValue == [raises |-> "", type |-> "none", num |-> 0, den |-> 1]

\* text is the returned string up to {result} or {exc}; these follow in value and error
Returned(text, evaluated, value, error) ==
    [returned |-> TRUE, text |-> text, evaluated |-> evaluated, value |-> value, error |-> error]

\* the exception leaves calculate
Propagated(error) ==
    [returned |-> FALSE, text |-> "", evaluated |-> TRUE, value |-> NoValue, error |-> error]

\* variant: eval outside the try
calculateUnguarded(expr) ==
    IF Unsafe(expr)
    THEN Returned("Unsafe expression '" \o expr \o "'. Only basic arithmetic operators "
                      \o "(+, -, *, /) and parentheses are allowed.",
                  FALSE, NoValue, "")
    ELSE LET result == Eval(expr)
         IN  IF result.raises = ""
             THEN Returned("Result of '" \o expr \o "' = ", TRUE, result, "")
             ELSE Propagated(result.raises)

calculate(expr) ==
    IF Unsafe(expr)
    THEN Returned("Unsafe expression '" \o expr \o "'. Only basic arithmetic operators "
                      \o "(+, -, *, /) and parentheses are allowed.",
                  FALSE, NoValue, "")
    ELSE LET result == Eval(expr)
         IN  IF result.raises = ""
             THEN Returned("Result of '" \o expr \o "' = ", TRUE, result, "")
             ELSE IF result.raises \in Exceptions
                  THEN Returned("Could not evaluate '" \o expr \o "': ", TRUE, NoValue,
                                result.raises)
                  ELSE Propagated(result.raises)

\* one call of the tool
Calculate ==
    /\ calcReturn = None
    /\ calcReturn' = Some(calculate(expression))
    /\ UNCHANGED <<storeVars, agentVars, policyVars, expression, routineVars, travelVars,
                   memoryVars, complianceVars, loanVars, fanVars>>

(***************************************************************************)
(* SpecCalculate: the tool is called once, with any expression of up to    *)
(* MaxExprLen characters: digits, operators, parentheses, spaces and a     *)
(* letter.                                                                 *)
(***************************************************************************)
ExprAlphabet == CharsOf("01+-*/() x")

RECURSIVE StringsUpTo(_)
StringsUpTo(n) ==
    IF n = 0 THEN {""}
    ELSE LET shorter == StringsUpTo(n - 1)
         IN  shorter \cup {s \o c : s \in shorter, c \in ExprAlphabet}

InitCalculate ==
    /\ FeedbackLoopNotRun
    /\ LoanNotStarted
    /\ FanoutNotStarted
    /\ expression \in StringsUpTo(MaxExprLen)
    /\ calcReturn = None
    /\ RoutineNotStarted
    /\ TravelNotStarted
    /\ MemoryNotUsed
    /\ ComplianceNotAsked

NextCalculate == Calculate

SpecCalculate == InitCalculate /\ [][NextCalculate]_vars

StartsWith(text, prefix) == Len(text) >= Len(prefix) /\ SubSeq(text, 1, Len(prefix)) = prefix

(***************************************************************************)
(* C21: calculate returns for every expression, and the returned text      *)
(* contains the expression.  An expression that contains "**" or a         *)
(* character other than a digit, + - * / ( ) . , and space gets the        *)
(* "Unsafe expression" message and is not evaluated; every other one gets  *)
(* "Result of '<expr>' = <value>", or "Could not evaluate" when the        *)
(* evaluation fails.                                                       *)
(***************************************************************************)
C21_CalculateNeverRaises ==
    calcReturn # None =>
        LET r == calcReturn[1]
            allowed == {SubSeq("0123456789+-*/()., ", i, i) : i \in 1..19}
            unsafe == \/ \E i \in 1..(Len(expression) - 1) : SubSeq(expression, i, i + 1) = "**"
                      \/ \E i \in 1..Len(expression) : SubSeq(expression, i, i) \notin allowed
        IN  /\ r.returned
            /\ Contains(expression, r.text)
            /\ unsafe => /\ StartsWith(r.text, "Unsafe expression")
                         /\ ~r.evaluated
                         /\ r.value.type = "none" /\ r.error = ""
            /\ ~unsafe =>
                   \/ /\ r.text = "Result of '" \o expression \o "' = "
                      /\ r.value.type \in {"int", "float", "tuple"}
                      /\ r.error = ""
                   \/ /\ StartsWith(r.text, "Could not evaluate")
                      /\ r.value.type = "none"
                      /\ r.error # ""

\* a division by zero is reported, not raised
C21_Witness ==
    /\ expression = "1/0"
    /\ calcReturn # None
    /\ calcReturn[1].returned
    /\ calcReturn[1].text = "Could not evaluate '1/0': "
    /\ calcReturn[1].error = "ZeroDivisionError"

(***************************************************************************)
(* morning_routine_workflow.py: weather_analyst -> schedule_analyzer ->    *)
(* routine_planner -> timeline_optimizer -> routine_finalizer.  A text is  *)
(* a string, the routine planner's response the sequence of its lines.     *)
(***************************************************************************)
InsightLimit == 200

Profiles ==
    {[name |-> "Sarah Chen", work_start_time |-> "8:30 AM",
      preferences |-> <<"exercise", "coffee">>, location |-> "Seattle, WA",
      fitness_level |-> "intermediate"],
     [name |-> "Raj", work_start_time |-> "9:00 AM",
      preferences |-> <<>>, location |-> "Pune", fitness_level |-> "moderate"]}

\* what agent.run gives: response.text, or the text of the exception it raises
RunTexts == {"", "mild and dry"}
RunFailures == {"timeout"}
RoutineTexts == {<<"1. 6:30 wake up", "Enjoy">>, <<"  - run", "", " ">>}

RunOutcomes ==
    {[raises |-> FALSE, text |-> t, error |-> ""] : t \in RunTexts}
        \cup {[raises |-> TRUE, text |-> "", error |-> e] : e \in RunFailures}

RoutineOutcomes ==
    {[raises |-> FALSE, lines |-> t, error |-> ""] : t \in RoutineTexts}
        \cup {[raises |-> TRUE, lines |-> <<>>, error |-> e] : e \in RunFailures}

\* MorningPlan(person_name, ...) with the defaults of the dataclass
MorningPlan(person_name, status, metadata) ==
    [person_name        |-> person_name,
     weather_analysis   |-> "",
     schedule_analysis  |-> "",
     routine_steps      |-> <<>>,
     optimization_notes |-> <<>>,
     final_timeline     |-> "",
     status             |-> status,
     metadata           |-> metadata]

\* {**metadata, key: value}
With(metadata, key, value) ==
    [k \in DOMAIN metadata \cup {key} |-> IF k = key THEN value ELSE metadata[k]]

\* metadata.get(key, default)
Get(metadata, key, default) == IF key \in DOMAIN metadata THEN metadata[key] ELSE default

\* str.strip() of a line
RECURSIVE Strip(_)
Strip(line) ==
    IF Len(line) = 0 THEN line
    ELSE IF SubSeq(line, 1, 1) = " " THEN Strip(SubSeq(line, 2, Len(line)))
    ELSE IF SubSeq(line, Len(line), Len(line)) = " " THEN Strip(SubSeq(line, 1, Len(line) - 1))
    ELSE line

\* the lines plan_routine keeps as routine steps
RECURSIVE RoutineSteps(_)
RoutineSteps(lines) ==
    IF lines = <<>> THEN <<>>
    ELSE LET line == Strip(Head(lines))
         IN  (IF Len(line) > 0 /\ (IsDigit(SubSeq(line, 1, 1)) \/ Contains("-", line))
              THEN <<line>> ELSE <<>>) \o RoutineSteps(Tail(lines))

\* text[:200] + "..." if len(text) > 200 else text
Insight(text) ==
    IF Len(text) > InsightLimit THEN SubSeq(text, 1, InsightLimit) \o "..." ELSE text

\* ctx.send_message(data): the message travels along the one edge that leaves the sender
Send(to, data) == routineMessage' = Some([to |-> to, data |-> data])

Received(at) == routineMessage # None /\ routineMessage[1].to = at

Called(agent, outcome) ==
    routineCalls' = Append(routineCalls, [agent |-> agent, raised |-> outcome.raises])

\* WeatherAnalystExecutor.analyze_weather
AnalyzeWeather(outcome) ==
    /\ Received("weather_analyst")
    /\ LET profile == routineMessage[1].data
       IN  /\ Called("WeatherAnalyst", outcome)
           /\ IF ~outcome.raises
              THEN Send("schedule_analyzer",
                        [MorningPlan(profile.name, "weather_analyzed",
                                     [location        |-> profile.location,
                                      work_start_time |-> profile.work_start_time,
                                      preferences     |-> profile.preferences,
                                      fitness_level   |-> profile.fitness_level])
                            EXCEPT !.weather_analysis = outcome.text])
              ELSE Send("schedule_analyzer",
                        [MorningPlan(profile.name, "weather_error", [error |-> outcome.error])
                            EXCEPT !.weather_analysis =
                                       "Weather analysis error: " \o outcome.error])
    /\ UNCHANGED routineOutputs

\* the test that opens analyze_schedule
AnalyzeScheduleSkips(plan) == plan.status \notin {"weather_analyzed"}

\* ScheduleAnalyzerExecutor.analyze_schedule
AnalyzeSchedule(outcome) ==
    /\ Received("schedule_analyzer")
    /\ LET plan == routineMessage[1].data
       IN  IF AnalyzeScheduleSkips(plan)
           THEN /\ Send("routine_planner", plan)
                /\ UNCHANGED routineCalls
           ELSE /\ Called("ScheduleAnalyzer", outcome)
                /\ IF ~outcome.raises
                   THEN Send("routine_planner",
                             [MorningPlan(plan.person_name, "schedule_analyzed", plan.metadata)
                                 EXCEPT !.weather_analysis = plan.weather_analysis,
                                        !.schedule_analysis = outcome.text])
                   ELSE Send("routine_planner",
                             [MorningPlan(plan.person_name, "schedule_error",
                                          With(plan.metadata, "schedule_error", outcome.error))
                                 EXCEPT !.weather_analysis = plan.weather_analysis,
                                        !.schedule_analysis =
                                            "Schedule analysis error: " \o outcome.error])
    /\ UNCHANGED routineOutputs

\* the test that opens plan_routine
\* variant: only a failed weather analysis makes the planner skip
PlanRoutineSkipsAfterWeatherOnly(plan) == plan.status \in {"weather_error"}

PlanRoutineSkips(plan) == plan.status # "schedule_analyzed"

\* RoutinePlannerExecutor.plan_routine
PlanRoutine(outcome) ==
    /\ Received("routine_planner")
    /\ LET plan == routineMessage[1].data
       IN  IF PlanRoutineSkips(plan)
           THEN /\ Send("timeline_optimizer", plan)
                /\ UNCHANGED routineCalls
           ELSE /\ Called("RoutinePlanner", outcome)
                /\ IF ~outcome.raises
                   THEN Send("timeline_optimizer",
                             [MorningPlan(plan.person_name, "routine_planned", plan.metadata)
                                 EXCEPT !.weather_analysis = plan.weather_analysis,
                                        !.schedule_analysis = plan.schedule_analysis,
                                        !.routine_steps = RoutineSteps(outcome.lines),
                                        !.optimization_notes = outcome.lines])
                   ELSE Send("timeline_optimizer",
                             [MorningPlan(plan.person_name, "routine_error",
                                          With(plan.metadata, "routine_error", outcome.error))
                                 EXCEPT !.weather_analysis = plan.weather_analysis,
                                        !.schedule_analysis = plan.schedule_analysis])
    /\ UNCHANGED routineOutputs

\* the test that opens optimize_timeline
OptimizeTimelineSkips(plan) == plan.status # "routine_planned"

\* TimelineOptimizerExecutor.optimize_timeline
OptimizeTimeline(outcome) ==
    /\ Received("timeline_optimizer")
    /\ LET plan == routineMessage[1].data
       IN  IF OptimizeTimelineSkips(plan)
           THEN /\ Send("routine_finalizer", plan)
                /\ UNCHANGED routineCalls
           ELSE /\ Called("TimelineOptimizer", outcome)
                /\ IF ~outcome.raises
                   THEN Send("routine_finalizer",
                             [plan EXCEPT !.final_timeline = outcome.text,
                                          !.status = "timeline_optimized"])
                   ELSE Send("routine_finalizer",
                             [plan EXCEPT !.final_timeline =
                                              "Timeline optimization error: " \o outcome.error,
                                          !.status = "timeline_error",
                                          !.metadata = With(plan.metadata, "timeline_error",
                                                            outcome.error)])
    /\ UNCHANGED routineOutputs

\* RoutineFinalizerExecutor.finalize_routine: ctx.yield_output, no message sent
FinalizeRoutine ==
    /\ Received("routine_finalizer")
    /\ LET plan == routineMessage[1].data
       IN  IF plan.status # "timeline_optimized"
           THEN routineOutputs' = Append(routineOutputs,
                    [status      |-> "failed",
                     reason      |-> "Plan status is " \o plan.status
                                         \o ", expected 'timeline_optimized'",
                     person_name |-> plan.person_name])
           ELSE routineOutputs' = Append(routineOutputs,
                    [status            |-> "completed",
                     person_name       |-> plan.person_name,
                     location          |-> Get(plan.metadata, "location", "Unknown"),
                     work_start_time   |-> Get(plan.metadata, "work_start_time", "9:00 AM"),
                     preferences       |-> Get(plan.metadata, "preferences", <<>>),
                     weather_insights  |-> Insight(plan.weather_analysis),
                     schedule_insights |-> Insight(plan.schedule_analysis),
                     routine_steps     |-> plan.routine_steps,
                     final_timeline    |-> plan.final_timeline,
                     total_components  |->
                         [weather_analysis   |-> Len(plan.weather_analysis) > 0,
                          schedule_analysis  |-> Len(plan.schedule_analysis) > 0,
                          routine_steps      |-> Len(plan.routine_steps),
                          timeline_optimized |-> Len(plan.final_timeline) > 0],
                     created_at        |-> "2024-12-10T06:00:00Z",
                     metadata          |-> plan.metadata])
    /\ routineMessage' = None
    /\ UNCHANGED routineCalls

(***************************************************************************)
(* SpecMorning: workflow.run_stream(profile), the framework delivering     *)
(* each message that was sent.                                             *)
(***************************************************************************)
InitMorning ==
    /\ FeedbackLoopNotRun
    /\ LoanNotStarted
    /\ FanoutNotStarted
    /\ CalculateNotCalled
    /\ routineMessage \in {Some([to |-> "weather_analyst", data |-> p]) : p \in Profiles}
    /\ routineCalls = <<>>
    /\ routineOutputs = <<>>
    /\ TravelNotStarted
    /\ MemoryNotUsed
    /\ ComplianceNotAsked

MorningStep(A) ==
    A /\ UNCHANGED <<storeVars, agentVars, policyVars, calcVars, travelVars, memoryVars,
                     complianceVars, loanVars, fanVars>>

NextMorning ==
    \/ \E outcome \in RunOutcomes : MorningStep(AnalyzeWeather(outcome))
    \/ \E outcome \in RunOutcomes : MorningStep(AnalyzeSchedule(outcome))
    \/ \E outcome \in RoutineOutcomes : MorningStep(PlanRoutine(outcome))
    \/ \E outcome \in RunOutcomes : MorningStep(OptimizeTimeline(outcome))
    \/ MorningStep(FinalizeRoutine)

SpecMorning == InitMorning /\ [][NextMorning]_vars /\ WF_vars(NextMorning)

\* the agents of the four AI stages, in the order of the edges
AIStages == <<"WeatherAnalyst", "ScheduleAnalyzer", "RoutinePlanner", "TimelineOptimizer">>

\* the status a stage gives the plan when it fails
ErrorStatus ==
    [WeatherAnalyst |-> "weather_error", ScheduleAnalyzer |-> "schedule_error",
     RoutinePlanner |-> "routine_error", TimelineOptimizer |-> "timeline_error"]

StageFailed == routineCalls # <<>> /\ routineCalls[Len(routineCalls)].raised

(***************************************************************************)
(* C22: every run of the morning-routine workflow yields exactly one       *)
(* output.  The stages call the model in the order weather, schedule,      *)
(* routine, timeline and none calls it after a failed call; the output is  *)
(* "completed" only if all four calls succeeded and the plan reached       *)
(* timeline_optimized.  Once a stage has failed every later AI stage       *)
(* forwards the plan unchanged, and the output is "failed" with a reason   *)
(* that names the status the failing stage gave the plan.                  *)
(***************************************************************************)
C22_MorningRoutineOutcome ==
    /\ [](/\ Len(routineOutputs) <= 1
          /\ (routineMessage = None) <=> (Len(routineOutputs) = 1)
          /\ Len(routineCalls) <= Len(AIStages)
          /\ \A i \in DOMAIN routineCalls :
                 /\ routineCalls[i].agent = AIStages[i]
                 /\ i < Len(routineCalls) => ~routineCalls[i].raised
          /\ \A i \in DOMAIN routineOutputs :
                 /\ routineOutputs[i].status \in {"completed", "failed"}
                 /\ routineOutputs[i].status = "completed" =>
                        /\ Len(routineCalls) = Len(AIStages)
                        /\ ~StageFailed
                 /\ routineOutputs[i].status = "failed" =>
                        /\ StageFailed
                        /\ routineOutputs[i].reason =
                               "Plan status is "
                                   \o ErrorStatus[routineCalls[Len(routineCalls)].agent]
                                   \o ", expected 'timeline_optimized'")
    /\ [][/\ (StageFailed /\ routineMessage # None /\ routineMessage' # None) =>
                 /\ routineMessage'[1].data = routineMessage[1].data
                 /\ routineCalls' = routineCalls
          /\ (routineOutputs' # routineOutputs
                  /\ routineOutputs'[Len(routineOutputs')].status = "completed") =>
                 routineMessage[1].data.status = "timeline_optimized"]_vars
    /\ <>(Len(routineOutputs) = 1)

\* the schedule analysis failed, two stages forwarded the plan, the output is "failed"
C22_Witness ==
    /\ routineMessage = None
    /\ Len(routineCalls) = 2
    /\ routineCalls[2].raised
    /\ Len(routineOutputs) = 1
    /\ routineOutputs[1].status = "failed"
    /\ routineOutputs[1].reason = "Plan status is schedule_error, expected 'timeline_optimized'"

(***************************************************************************)
(* travel_assistant_shared_state.py: destination_collector ->              *)
(* date_collector -> preference_collector -> flight_recommender ->         *)
(* hotel_recommender -> itinerary_builder, all reading and writing the     *)
(* shared state under the key "travel_plan".                               *)
(***************************************************************************)
SummaryLimit == 300

\* the index of the first occurrence of sep in text, 0 if there is none
IndexOf(sep, text) ==
    LET at == {i \in 1..(Len(text) - Len(sep) + 1) : SubSeq(text, i, i + Len(sep) - 1) = sep}
    IN  IF at = {} THEN 0 ELSE CHOOSE i \in at : \A j \in at : i <= j

\* text.split(sep)
RECURSIVE Split(_, _)
Split(text, sep) ==
    LET i == IndexOf(sep, text)
    IN  IF i = 0 THEN <<text>>
        ELSE <<SubSeq(text, 1, i - 1)>> \o Split(SubSeq(text, i + Len(sep), Len(text)), sep)

\* text.split(sep, 1)
SplitOnce(text, sep) ==
    LET i == IndexOf(sep, text)
    IN  IF i = 0 THEN <<text>>
        ELSE <<SubSeq(text, 1, i - 1), SubSeq(text, i + Len(sep), Len(text))>>

EmptyDict == [k \in {} |-> ""]

\* TravelPlan(status=..., metadata=...) with the defaults of the dataclass
TravelPlan(status, metadata) ==
    [destination            |-> None,
     travel_dates           |-> None,
     preferences            |-> None,
     flight_recommendations |-> None,
     hotel_recommendations  |-> None,
     itinerary              |-> None,
     status                 |-> status,
     metadata               |-> metadata]

\* the truth value of an Optional[str] and of an Optional[Dict]
TruthyText(x) == x # None /\ x[1] # ""
TruthyDict(x) == x # None /\ DOMAIN x[1] # {}

\* what agent.run gives each stage
DestinationOutcomes ==
    {[raises |-> FALSE, text |-> " Paris ", error |-> ""],
     [raises |-> FALSE, text |-> "", error |-> ""],
     [raises |-> TRUE, text |-> "", error |-> "timeout"]}

DatesOutcomes ==
    {[raises |-> FALSE, text |-> "START_DATE: 2025-12-20, END_DATE: 2025-12-30", error |-> ""],
     [raises |-> FALSE, text |-> "END_DATE: 2025-12-30 START_DATE: 2025-12-20", error |-> ""],
     [raises |-> FALSE, text |-> "sometime in December", error |-> ""],
     [raises |-> TRUE, text |-> "", error |-> "timeout"]}

PreferencesOutcomes ==
    {[raises |-> FALSE, text |-> "Budget: low\nSTYLE : adventure: solo", error |-> ""],
     [raises |-> FALSE, text |-> "no preference", error |-> ""],
     [raises |-> TRUE, text |-> "", error |-> "timeout"]}

AdviceOutcomes ==
    {[raises |-> FALSE, text |-> "book early", error |-> ""],
     [raises |-> FALSE, text |-> "", error |-> ""],
     [raises |-> TRUE, text |-> "", error |-> "timeout"]}

\* the parsing of the dates in collect_dates: the dictionary, or the IndexError
ParseDates(dates_text) ==
    IF Contains("START_DATE:", dates_text) /\ Contains("END_DATE:", dates_text)
    THEN LET parts == Split(Split(dates_text, "START_DATE:")[2], "END_DATE:")
         IN  IF Len(parts) < 2 THEN [raises |-> TRUE, dict |-> EmptyDict, error |-> "IndexError"]
             ELSE [raises |-> FALSE, error |-> "",
                   dict |-> [start |-> Strip(parts[1]), end |-> Strip(parts[2])]]
    ELSE [raises |-> FALSE, dict |-> EmptyDict, error |-> ""]

\* the parsing of the preferences in collect_preferences
RECURSIVE ParsePreferenceLines(_, _)
ParsePreferenceLines(lines, dict) ==
    IF lines = <<>> THEN dict
    ELSE ParsePreferenceLines(
             Tail(lines),
             IF Contains(":", Head(lines))
             THEN With(dict, Lower(Strip(SplitOnce(Head(lines), ":")[1])),
                       Strip(SplitOnce(Head(lines), ":")[2]))
             ELSE dict)

ParsePreferences(preferences_text) ==
    ParsePreferenceLines(Split(preferences_text, "\n"), EmptyDict)

\* ctx.get_shared_state("travel_plan"): the stored plan; when nothing was stored under
\* the key, None or a KeyError, as the workflow library has it
GetSharedState ==
    IF travelShared # None THEN [raises |-> FALSE, value |-> travelShared, error |-> ""]
    ELSE IF missingKey = "KeyError" THEN [raises |-> TRUE, value |-> None, error |-> "KeyError"]
    ELSE [raises |-> FALSE, value |-> None, error |-> ""]

TravelSend(to, data) == travelMessage' = Some([to |-> to, data |-> data])

TravelReceived(at) == travelMessage # None /\ travelMessage[1].to = at

\* an exception leaves the handler: the run ends with it
HandlerRaises(error) ==
    /\ travelMessage' = None
    /\ travelRaised' = Some(error)
    /\ UNCHANGED <<travelShared, travelOutputs>>

\* shared_state.<field> if shared_state else None
FieldOf(shared_state, field) == IF shared_state # None THEN shared_state[1][field] ELSE None

MetadataOf(shared_state) == IF shared_state # None THEN shared_state[1].metadata ELSE EmptyDict

\* the except block of the stages from date_collector to hotel_recommender
ExceptSend(to, status, fields, error) ==
    LET shared_state == GetSharedState
    IN  IF shared_state.raises THEN HandlerRaises(shared_state.error)
        ELSE /\ TravelSend(to, [k \in DOMAIN TravelPlan(status, [error |-> error]) |->
                                    IF k \in fields THEN FieldOf(shared_state.value, k)
                                    ELSE TravelPlan(status, [error |-> error])[k]])
             /\ UNCHANGED <<travelShared, travelOutputs, travelRaised>>

\* ctx.set_shared_state("travel_plan", plan); ctx.send_message(plan)
StoreAndSend(to, plan) ==
    /\ travelShared' = Some(plan)
    /\ TravelSend(to, plan)
    /\ UNCHANGED <<travelOutputs, travelRaised>>

Forward(to, plan) ==
    /\ TravelSend(to, plan)
    /\ UNCHANGED <<travelShared, travelOutputs, travelRaised>>

\* DestinationCollectorExecutor.collect_destination
CollectDestination(user_input, outcome) ==
    /\ TravelReceived("destination_collector")
    /\ IF ~outcome.raises
       THEN StoreAndSend("date_collector",
                [TravelPlan("destination_collected",
                            [step |-> user_input.step, input_type |-> user_input.input_type])
                    EXCEPT !.destination = Some(Strip(outcome.text))])
       ELSE Forward("date_collector", TravelPlan("destination_error", [error |-> outcome.error]))

\* DateCollectorExecutor.collect_dates
CollectDates(outcome) ==
    /\ TravelReceived("date_collector")
    /\ LET shared_state == GetSharedState
           dates == ParseDates(Strip(outcome.text))
           failure == IF shared_state.raises THEN shared_state.error
                      ELSE IF outcome.raises THEN outcome.error
                      ELSE dates.error
       IN  IF failure = ""
           THEN StoreAndSend("preference_collector",
                    [TravelPlan("dates_collected",
                                With(MetadataOf(shared_state.value), "dates_added", TRUE))
                        EXCEPT !.destination = FieldOf(shared_state.value, "destination"),
                               !.travel_dates = Some(dates.dict)])
           ELSE ExceptSend("preference_collector", "date_error", {"destination"}, failure)

\* PreferenceCollectorExecutor.collect_preferences
CollectPreferences(outcome) ==
    /\ TravelReceived("preference_collector")
    /\ LET shared_state == GetSharedState
           failure == IF shared_state.raises THEN shared_state.error
                      ELSE IF outcome.raises THEN outcome.error
                      ELSE ""
       IN  IF failure = ""
           THEN StoreAndSend("flight_recommender",
                    [TravelPlan("preferences_collected",
                                With(MetadataOf(shared_state.value), "preferences_added", TRUE))
                        EXCEPT !.destination = FieldOf(shared_state.value, "destination"),
                               !.travel_dates = FieldOf(shared_state.value, "travel_dates"),
                               !.preferences = Some(ParsePreferences(Strip(outcome.text)))])
           ELSE ExceptSend("flight_recommender", "preference_error",
                           {"destination", "travel_dates"}, failure)

\* the two tests of recommend_flights that forward the received plan
FlightsSkipped(shared_state) ==
    \/ shared_state = None
    \/ shared_state[1].status \notin {"preferences_collected"}
    \/ ~(/\ TruthyText(shared_state[1].destination)
         /\ TruthyDict(shared_state[1].travel_dates)
         /\ TruthyDict(shared_state[1].preferences))

\* FlightRecommenderExecutor.recommend_flights
RecommendFlights(outcome) ==
    /\ TravelReceived("flight_recommender")
    /\ LET shared_state == GetSharedState
       IN  IF shared_state.raises
           THEN ExceptSend("hotel_recommender", "flight_error",
                           {"destination", "travel_dates", "preferences"}, shared_state.error)
           ELSE IF FlightsSkipped(shared_state.value)
           THEN Forward("hotel_recommender", travelMessage[1].data)
           ELSE IF outcome.raises
           THEN ExceptSend("hotel_recommender", "flight_error",
                           {"destination", "travel_dates", "preferences"}, outcome.error)
           ELSE StoreAndSend("hotel_recommender",
                    [shared_state.value[1] EXCEPT
                        !.flight_recommendations = Some(outcome.text),
                        !.hotel_recommendations = None,
                        !.itinerary = None,
                        !.status = "flights_recommended",
                        !.metadata = With(shared_state.value[1].metadata, "flights_added", TRUE)])

\* the test of recommend_hotels that forwards the received plan
HotelsSkipped(shared_state) ==
    \/ shared_state = None
    \/ ~(/\ TruthyText(shared_state[1].destination)
         /\ TruthyDict(shared_state[1].travel_dates)
         /\ TruthyDict(shared_state[1].preferences)
         /\ TruthyText(shared_state[1].flight_recommendations))

\* HotelRecommenderExecutor.recommend_hotels
RecommendHotels(outcome) ==
    /\ TravelReceived("hotel_recommender")
    /\ LET shared_state == GetSharedState
           kept == {"destination", "travel_dates", "preferences", "flight_recommendations"}
       IN  IF shared_state.raises
           THEN ExceptSend("itinerary_builder", "hotel_error", kept, shared_state.error)
           ELSE IF HotelsSkipped(shared_state.value)
           THEN Forward("itinerary_builder", travelMessage[1].data)
           ELSE IF outcome.raises
           THEN ExceptSend("itinerary_builder", "hotel_error", kept, outcome.error)
           ELSE StoreAndSend("itinerary_builder",
                    [shared_state.value[1] EXCEPT
                        !.hotel_recommendations = Some(outcome.text),
                        !.itinerary = None,
                        !.status = "hotels_recommended",
                        !.metadata = With(shared_state.value[1].metadata, "hotels_added", TRUE)])

\* text[:300] + "..." if text else None
Summary(text) ==
    IF TruthyText(text) THEN Some(SubSeq(text[1], 1, Min(Len(text[1]), SummaryLimit)) \o "...")
    ELSE None

Yield(output) ==
    /\ travelOutputs' = Append(travelOutputs, output)
    /\ travelMessage' = None
    /\ UNCHANGED travelRaised

\* ItineraryBuilderExecutor.build_itinerary
BuildItinerary(outcome) ==
    /\ TravelReceived("itinerary_builder")
    /\ LET shared_state == GetSharedState
           failure == IF shared_state.raises THEN shared_state.error
                      ELSE IF shared_state.value = None
                              \/ shared_state.value[1].status # "hotels_recommended" THEN ""
                      ELSE IF ~({"start", "end"} \subseteq DOMAIN shared_state.value[1].travel_dates[1])
                           THEN "KeyError"
                      ELSE IF outcome.raises THEN outcome.error
                      ELSE ""
       IN  IF failure # ""
           THEN /\ Yield([status |-> "failed", error |-> failure])
                /\ UNCHANGED travelShared
           ELSE IF shared_state.value = None
                   \/ shared_state.value[1].status # "hotels_recommended"
           THEN /\ Yield([status      |-> "failed",
                          reason      |-> "Incomplete travel plan data",
                          destination |-> FieldOf(shared_state.value, "destination")])
                /\ UNCHANGED travelShared
           ELSE LET final_plan ==
                        [shared_state.value[1] EXCEPT
                            !.itinerary = Some(outcome.text),
                            !.status = "complete",
                            !.metadata = With(shared_state.value[1].metadata,
                                              "itinerary_built", TRUE)]
                IN  /\ travelShared' = Some(final_plan)
                    /\ Yield([status                 |-> "completed",
                              destination            |-> final_plan.destination,
                              travel_dates           |-> final_plan.travel_dates,
                              preferences            |-> final_plan.preferences,
                              flight_recommendations |->
                                  Summary(final_plan.flight_recommendations),
                              hotel_recommendations  |->
                                  Summary(final_plan.hotel_recommendations),
                              itinerary              |-> outcome.text,
                              complete_travel_plan   |-> final_plan])

(***************************************************************************)
(* SpecTravel: workflow.run_stream(destination_input) on a new workflow.   *)
(***************************************************************************)
InitTravel ==
    /\ FeedbackLoopNotRun
    /\ LoanNotStarted
    /\ FanoutNotStarted
    /\ CalculateNotCalled
    /\ RoutineNotStarted
    /\ travelShared = None
    /\ travelMessage = Some([to |-> "destination_collector",
                             data |-> [step |-> 1, input_type |-> "destination",
                                       content |-> "I want to go to Paris"]])
    /\ travelOutputs = <<>>
    /\ travelRaised = None
    /\ missingKey \in {"None", "KeyError"}
    /\ MemoryNotUsed
    /\ ComplianceNotAsked

TravelStep(A) ==
    A /\ UNCHANGED <<storeVars, agentVars, policyVars, calcVars, routineVars, missingKey,
                     memoryVars, complianceVars, loanVars, fanVars>>

NextTravel ==
    \/ \E outcome \in DestinationOutcomes :
           TravelStep(CollectDestination(travelMessage[1].data, outcome))
    \/ \E outcome \in DatesOutcomes : TravelStep(CollectDates(outcome))
    \/ \E outcome \in PreferencesOutcomes : TravelStep(CollectPreferences(outcome))
    \/ \E outcome \in AdviceOutcomes : TravelStep(RecommendFlights(outcome))
    \/ \E outcome \in AdviceOutcomes : TravelStep(RecommendHotels(outcome))
    \/ \E outcome \in AdviceOutcomes : TravelStep(BuildItinerary(outcome))

SpecTravel == InitTravel /\ [][NextTravel]_vars

\* the run is over: no message is on its way to an executor
TravelRunOver == travelMessage = None

(***************************************************************************)
(* C23: a "completed" output of the travel workflow comes from a shared    *)
(* plan that held a destination, non-empty dates, non-empty preferences    *)
(* and flight recommendations and had reached hotels_recommended; every    *)
(* run yields one output, and it is "failed" in every other case: a field  *)
(* that is missing, or a stage that failed.                                *)
(***************************************************************************)
C23_TravelOutcome ==
    /\ \A i \in DOMAIN travelOutputs :
           /\ travelOutputs[i].status \in {"completed", "failed"}
           /\ travelOutputs[i].status = "completed" =>
                  LET plan == travelOutputs[i].complete_travel_plan
                  IN  /\ TruthyText(plan.destination)
                      /\ TruthyDict(plan.travel_dates)
                      /\ TruthyDict(plan.preferences)
                      /\ TruthyText(plan.flight_recommendations)
                      /\ plan.hotel_recommendations # None
                      /\ {"flights_added", "hotels_added"} \subseteq DOMAIN plan.metadata
    /\ TravelRunOver => Len(travelOutputs) = 1

(***************************************************************************)
(* memory_context_example.py: UserInfoMemory.  The agent may be run by     *)
(* several callers at once, so an invoked() call can wait in get_response  *)
(* while another one starts or ends.                                       *)
(***************************************************************************)
Callers == {"c1", "c2"}

\* UserInfo(name=..., age=...)
UserInfo(name, age) == [name |-> name, age |-> age]

Names == {"", "Ann", "Bob"}
Ages == {0, 30, 41}

UserInfos == {UserInfo(n, a) : n \in {None} \cup {Some(x) : x \in Names},
                               a \in {None} \cup {Some(x) : x \in Ages}}

\* what get_response does: it raises, or returns a response whose value is None or a UserInfo
UserInfoResults ==
    {[raises |-> TRUE, value |-> None], [raises |-> FALSE, value |-> None]}
        \cup {[raises |-> FALSE, value |-> Some(i)] : i \in UserInfos}

\* lines 94-98: only the fields that are missing are updated
\* variant: what was extracted replaces what is remembered
UpdateAll(info, value) ==
    IF value # None
    THEN UserInfo(IF TruthyText(value[1].name) THEN value[1].name ELSE info.name,
                  IF value[1].age # None /\ value[1].age[1] # 0 THEN value[1].age
                  ELSE info.age)
    ELSE info

UpdateMissing(info, value) ==
    IF value # None
    THEN UserInfo(IF info.name = None /\ TruthyText(value[1].name) THEN value[1].name
                  ELSE info.name,
                  IF info.age = None /\ value[1].age # None /\ value[1].age[1] # 0
                  THEN value[1].age ELSE info.age)
    ELSE info

\* invoked(), up to the call of get_response or, when no extraction is due, to its end
MemoryInvokedBegin(c, request_messages) ==
    /\ extracting[c] = None
    /\ ninvoked < MaxInvoked
    /\ ninvoked' = ninvoked + 1
    /\ IF (user_info.name = None \/ user_info.age = None)
              /\ UserMessages(request_messages) # <<>>
       THEN extracting' = [extracting EXCEPT ![c] = Some(request_messages)]
       ELSE UNCHANGED extracting
    /\ UNCHANGED <<user_info, extracted, memoryContext>>

\* invoked(), from the end of get_response on
MemoryInvokedEnd(c, result) ==
    /\ extracting[c] # None
    /\ extracting' = [extracting EXCEPT ![c] = None]
    /\ extracted' = Append(extracted, result)
    /\ user_info' = IF result.raises THEN user_info ELSE UpdateMissing(user_info, result.value)
    /\ UNCHANGED <<ninvoked, memoryContext>>

\* the instructions invoking() joins
MemoryInstructions(info) ==
    << IF info.name = None THEN [kind |-> "ask_name", value |-> None]
       ELSE [kind |-> "name_is", value |-> info.name],
       IF info.age = None THEN [kind |-> "ask_age", value |-> None]
       ELSE [kind |-> "age_is", value |-> info.age] >>

\* UserInfoMemory.invoking
MemoryInvoking ==
    /\ memoryContext' = Some(MemoryInstructions(user_info))
    /\ UNCHANGED <<user_info, extracting, extracted, ninvoked>>

(***************************************************************************)
(* SpecMemory: the calls the framework makes on a UserInfoMemory that was  *)
(* constructed empty or restored with a name.                              *)
(***************************************************************************)
InitMemory ==
    /\ FeedbackLoopNotRun
    /\ LoanNotStarted
    /\ FanoutNotStarted
    /\ CalculateNotCalled
    /\ RoutineNotStarted
    /\ TravelNotStarted
    /\ user_info \in {UserInfo(None, None), UserInfo(Some("Ann"), None)}
    /\ extracting = [c \in Callers |-> None]
    /\ extracted = <<>>
    /\ ninvoked = 0
    /\ memoryContext = None
    /\ ComplianceNotAsked

MemoryStep(A) ==
    A /\ UNCHANGED <<storeVars, agentVars, policyVars, calcVars, routineVars, travelVars,
                     complianceVars, loanVars, fanVars>>

NextMemory ==
    \/ \E c \in Callers, request_messages \in RequestShapes :
           MemoryStep(MemoryInvokedBegin(c, request_messages))
    \/ \E c \in Callers, result \in UserInfoResults : MemoryStep(MemoryInvokedEnd(c, result))
    \/ MemoryStep(MemoryInvoking)

SpecMemory == InitMemory /\ [][NextMemory]_vars

(***************************************************************************)
(* C24: a name, and an age, that UserInfoMemory holds is never changed,    *)
(* whatever a later extraction returns; an extraction is started only      *)
(* while the name or the age is missing and the request has a user         *)
(* message; an extraction that raises leaves both fields as they were.     *)
(***************************************************************************)
C24_WriteOnce ==
    [][/\ user_info.name # None => user_info'.name = user_info.name
       /\ user_info.age # None => user_info'.age = user_info.age
       /\ \A c \in Callers :
              (extracting[c] = None /\ extracting'[c] # None) =>
                  /\ user_info.name = None \/ user_info.age = None
                  /\ \E i \in DOMAIN extracting'[c][1] : extracting'[c][1][i] = "user"
       /\ (Len(extracted') > Len(extracted) /\ extracted'[Len(extracted')].raises) =>
              user_info' = user_info
       /\ Len(extracted') = Len(extracted) => user_info' = user_info]_vars

\* two extractions have returned different names and the first one is remembered
C24_Witness ==
    /\ Len(extracted) = 2
    /\ ~extracted[1].raises /\ extracted[1].value # None
    /\ extracted[1].value[1].name = Some("Ann")
    /\ ~extracted[2].raises /\ extracted[2].value # None
    /\ extracted[2].value[1].name = Some("Bob")
    /\ extracted[2].value[1].age = Some(41)
    /\ user_info = UserInfo(Some("Ann"), Some(41))

(***************************************************************************)
(* compliance_agent_server.py: POST /api/verify_compliance.                *)
(***************************************************************************)
SANCTIONS_LIST == {"iran", "north korea", "syria", "cuba"}
LargeTransaction == 100000

\* ComplianceRequest: the optional fields as Optional values
Countries ==
    {None, Some(""), Some("US"), Some("Iran"), Some("CUBA"), Some("north korea"),
     Some("North  Korea"), Some(" syria"), Some("Iranian")}
LoanAmounts == {None, Some(0), Some(LargeTransaction), Some(LargeTransaction + 1), Some(0 - 5)}
CustomerNames == {"", " ", "Ann", "Ann Lee", " Ann  Lee Roy "}

ComplianceRequests ==
    [customer_id : {"CUST-001"}, customer_name : CustomerNames,
     customer_country : Countries, loan_amount : LoanAmounts]

\* text.split(): the words between runs of spaces
Words(text) == SelectSeq(Split(text, " "), LAMBDA w : w # "")

Sanctioned(request) ==
    /\ TruthyText(request.customer_country)
    /\ Lower(request.customer_country[1]) \in SANCTIONS_LIST

LargeLoan(request) ==
    /\ request.loan_amount # None
    /\ request.loan_amount[1] # 0
    /\ request.loan_amount[1] > LargeTransaction

IncompleteName(request) == request.customer_name = "" \/ Len(Words(request.customer_name)) < 2

\* status after the three checks, made in this order
\* variant: the later checks assign review_required whatever the status
StatusOverwritten(request) ==
    IF LargeLoan(request) \/ IncompleteName(request) THEN "review_required"
    ELSE IF Sanctioned(request) THEN "fail"
    ELSE "pass"

StatusOf(request) ==
    LET sanctions == IF Sanctioned(request) THEN "fail" ELSE "pass"
        aml == IF LargeLoan(request) /\ sanctions = "pass" THEN "review_required" ELSE sanctions
    IN  IF IncompleteName(request) /\ aml = "pass" THEN "review_required" ELSE aml

FlagsOf(request) ==
    (IF Sanctioned(request)
     THEN <<"Customer country " \o request.customer_country[1] \o " is on sanctions list">>
     ELSE <<>>)
    \o (IF LargeLoan(request)
        THEN <<"Large transaction - enhanced due diligence required">> ELSE <<>>)
    \o (IF IncompleteName(request)
        THEN <<"Incomplete customer name - KYC verification required">> ELSE <<>>)

\* verify_compliance(request)
verify_compliance(request) ==
    LET status == StatusOf(request)
        sanctionFlags == IF Sanctioned(request) THEN SubSeq(FlagsOf(request), 1, 1) ELSE <<>>
    IN  [status          |-> status,
         sanctions_check |-> IF \E i \in DOMAIN sanctionFlags :
                                    Contains("sanctions", Lower(sanctionFlags[i]))
                             THEN "BLOCKED" ELSE "CLEAR",
         aml_check       |-> "PASS",
         kyc_status      |-> IF IncompleteName(request) THEN "PENDING" ELSE "VERIFIED",
         flags           |-> FlagsOf(request),
         recommendation  |->
             IF status = "fail" THEN "REJECT - Compliance violation detected"
             ELSE IF status = "review_required"
                  THEN "CONDITIONAL - Manual compliance review required"
                  ELSE "APPROVE - All compliance checks passed"]

\* one request served
VerifyCompliance ==
    /\ complianceRequest # None
    /\ complianceResponse = None
    /\ complianceResponse' = Some(verify_compliance(complianceRequest[1]))
    /\ UNCHANGED complianceRequest

(***************************************************************************)
(* SpecCompliance: the service answers one request.                        *)
(***************************************************************************)
InitCompliance ==
    /\ FeedbackLoopNotRun
    /\ LoanNotStarted
    /\ FanoutNotStarted
    /\ CalculateNotCalled
    /\ RoutineNotStarted
    /\ TravelNotStarted
    /\ MemoryNotUsed
    /\ complianceRequest \in {Some(r) : r \in ComplianceRequests}
    /\ complianceResponse = None

NextCompliance ==
    VerifyCompliance
        /\ UNCHANGED <<storeVars, agentVars, policyVars, calcVars, routineVars, travelVars,
                       memoryVars, loanVars, fanVars>>

SpecCompliance == InitCompliance /\ [][NextCompliance]_vars

\* the country is one of the sanctioned ones, up to the case of its letters
OnSanctionsList(country) ==
    /\ country # None
    /\ \E s \in {"iran", "north korea", "syria", "cuba"} :
           /\ Len(s) = Len(country[1])
           /\ \A i \in 1..Len(s) : SameLetter(SubSeq(s, i, i), SubSeq(country[1], i, i))

(***************************************************************************)
(* C25: the status the compliance service returns is pass, fail or         *)
(* review_required; it is fail exactly when customer_country, compared     *)
(* without regard to case, is on the sanctions list, whatever the loan     *)
(* amount and the name; the recommendation is REJECT exactly for fail,     *)
(* CONDITIONAL exactly for review_required, APPROVE exactly for pass.      *)
(***************************************************************************)
C25_ComplianceStatus ==
    complianceResponse # None =>
        LET request == complianceRequest[1]
            response == complianceResponse[1]
        IN  /\ response.status \in {"pass", "fail", "review_required"}
            /\ response.status = "fail" <=> OnSanctionsList(request.customer_country)
            /\ StartsWith(response.recommendation, "REJECT") <=> response.status = "fail"
            /\ StartsWith(response.recommendation, "CONDITIONAL")
                   <=> response.status = "review_required"
            /\ StartsWith(response.recommendation, "APPROVE") <=> response.status = "pass"

\* a sanctioned country with a large loan and a one-word name: still fail
C25_Witness ==
    /\ complianceResponse # None
    /\ complianceRequest[1].customer_country = Some("CUBA")
    /\ complianceRequest[1].loan_amount = Some(LargeTransaction + 1)
    /\ complianceRequest[1].customer_name = "Ann"
    /\ complianceResponse[1].status = "fail"
    /\ Len(complianceResponse[1].flags) = 3

(***************************************************************************)
(* C26: from the default policy on, positive_feedback never exceeds        *)
(* feedback_count, neither counter ever decreases, and the win rate that   *)
(* invoking shows lies between 0 and 100 percent.                          *)
(***************************************************************************)
C26_PositiveWithinCount ==
    /\ [](/\ 0 <= preferences.positive_feedback
          /\ preferences.positive_feedback <= preferences.feedback_count
          /\ 0 <= WinRate(preferences) /\ WinRate(preferences) <= 100
          /\ lastCall.op = "invoking" => (0 <= lastCall.win_rate /\ lastCall.win_rate <= 100))
    /\ [][/\ preferences'.feedback_count >= preferences.feedback_count
          /\ preferences'.positive_feedback >= preferences.positive_feedback
          /\ preferences'.positive_feedback - preferences.positive_feedback
                 <= preferences'.feedback_count - preferences.feedback_count]_vars

\* two ratings of three were positive and invoking has shown 67 percent
C26_Witness ==
    /\ preferences.feedback_count = 3
    /\ preferences.positive_feedback = 2
    /\ lastCall.op = "invoking"
    /\ lastCall.win_rate = 67

(***************************************************************************)
(* C27: no policy update changes prefer_examples, whatever the rating and  *)
(* the suggestion, a request for more code examples included; invoking     *)
(* changes no field of the policy.                                         *)
(***************************************************************************)
C27_PreferExamplesKept ==
    /\ [](/\ preferences.prefer_examples = DefaultPreferences.prefer_examples
          /\ \A wanted \in BOOLEAN, f \in UserFeedbacks :
                 UpdatePolicy([preferences EXCEPT !.prefer_examples = wanted], f).prefer_examples
                     = wanted)
    /\ [][/\ preferences'.prefer_examples = preferences.prefer_examples
          /\ (lastCall'.op = "invoking" \/ providerContext' # providerContext) =>
                 preferences' = preferences]_vars

\* a suggestion has made the responses detailed, and the instructions still ask
\* for code examples
C27_Witness ==
    /\ preferences.response_length = "detailed"
    /\ preferences.feedback_count >= 1
    /\ preferences.prefer_examples
    /\ lastCall.op = "invoking"
    /\ providerContext # None
    /\ \E i \in DOMAIN providerContext[1] : providerContext[1][i].kind = "include_examples"

(***************************************************************************)
(* SpecExamples: store_feedback calls on an empty container or on one of   *)
(* a user whose helpful records are the oldest, every later record being   *)
(* not helpful, about to exceed the summary window.                        *)
(***************************************************************************)
EarlyHelpful == 2        \* helpful records at the start of that container

EarlyHelpfulDocument(i) ==
    [id            |-> i,
     user_id       |-> "u1",
     query         |-> IF i % 2 = 1 THEN "q1" ELSE "q2",
     response      |-> IF i % 2 = 1 THEN "r1" ELSE "r2",
     feedback      |-> (i <= EarlyHelpful),
     feedback_type |-> IF i <= EarlyHelpful THEN "helpful" ELSE "not_helpful",
     timestamp     |-> IsoFormat(i),
     context       |-> {}]

EarlyHelpfulContainer(n) == [i \in 1..n |-> EarlyHelpfulDocument(i)]

InitExamples ==
    /\ nstores = 0
    /\ lastStore = None
    /\ writes = 0
    /\ storeResult = None
    /\ tieOrder = "id_asc"
    /\ lastRead = None
    /\ inflight = [a \in Agents |-> None]
    /\ AgentsConstructed
    /\ ProviderConstructed
    /\ SamplesNotRun
    /\ \/ container = <<>> /\ clockBase = 0
       \/ container = EarlyHelpfulContainer(PrefillCount)
          /\ clockBase \in {0, PrefillCount - 1}

StoreExamples ==
    \E user_id \in Users, feedback \in BOOLEAN, d \in {0, MaxClock} :
        /\ StoreFeedback(user_id, "q1", "r1", feedback, None, clockBase + d)
        /\ UNCHANGED <<agentVars, policyVars, sampleVars>>

NextExamples == StoreExamples

SpecExamples == InitExamples /\ [][NextExamples]_vars

\* the example pairs embedded in a context, and the helpful count its statistics
\* block reports (none without the block)
ExamplePairs(ctx) == Cardinality({i \in DOMAIN ctx : ctx[i].kind = "example"})

ReportedHelpful(ctx) ==
    IF \E i \in DOMAIN ctx : ctx[i].kind = "statistics"
    THEN (CHOOSE p \in {ctx[i] : i \in DOMAIN ctx} : p.kind = "statistics").helpful
    ELSE 0

(***************************************************************************)
(* C28 as stated: in every context built from one state of the container,  *)
(* the example pairs are at most the helpful count of its statistics.      *)
(***************************************************************************)
C28_ExamplesWithinReported ==
    \A u \in Users, t1 \in TieOrders, t2 \in TieOrders :
        LET ctx == BuildFeedbackContext(u, t1, t2)
        IN  ExamplePairs(ctx) <= ReportedHelpful(ctx)

(***************************************************************************)
(* C28 amended: in every context built from one state of the container,    *)
(* the example pairs are the helpful records of the user up to 3; they are *)
(* at most the helpful count of the statistics while the user has at most  *)
(* 100 records, and in any case at most that count plus the helpful        *)
(* records outside the 100 most recent.                                    *)
(***************************************************************************)
C28_ExamplesWithinHelpful ==
    \A u \in Users, t1 \in TieOrders, t2 \in TieOrders :
        LET ctx     == BuildFeedbackContext(u, t1, t2)
            helpful == Cardinality(HelpfulDocs(u))
            outside == helpful - GetFeedbackSummary(u, t1).helpful_count
        IN  /\ ExamplePairs(ctx) = Min(ExampleLimit, helpful)
            /\ Cardinality(UserDocs(u)) <= SummaryWindow =>
                   ExamplePairs(ctx) <= ReportedHelpful(ctx)
            /\ outside >= 0
            /\ ExamplePairs(ctx) <= ReportedHelpful(ctx) + outside

\* the user has exactly 100 records after a store_feedback, two of them helpful,
\* and the context shows both and reports 2
C28_Witness ==
    /\ nstores > 0
    /\ Cardinality(UserDocs("u1")) = SummaryWindow
    /\ LET ctx == BuildFeedbackContext("u1", "id_asc", "id_asc")
       IN  /\ ExamplePairs(ctx) = 2
           /\ ReportedHelpful(ctx) = 2

(***************************************************************************)
(* a2a_workflow_simple.py: process_customer asks the risk service and the  *)
(* compliance service, then asks the LoanOfficer agent for a decision.     *)
(* Two calls for the same customer, r1 and r2, are followed side by side:  *)
(* the agent comes to the same thing in both, the services need not.       *)
(***************************************************************************)
LoanRuns == {"r1", "r2"}

CustomerProfile(customer_id, name, age, annual_income, credit_score, loan_request_amount) ==
    [customer_id         |-> customer_id,
     name                |-> name,
     age                 |-> age,
     annual_income       |-> annual_income,
     credit_score        |-> credit_score,
     loan_request_amount |-> loan_request_amount,
     existing_debt       |-> 0]

\* the customers of main()
Customers ==
    {CustomerProfile("C001", "Alice Johnson", 35, 50000, 750, 40000),
     CustomerProfile("C002", "Bob Smith", 42, 35000, 680, 30000)}

\* numbers of the JSON bodies and of the decision are fractions in lowest terms
DefaultRiskData == [risk_level |-> "medium", recommended_interest_rate |-> Divide(65, 10)]

DefaultComplianceData == [status |-> "pass"]

(***************************************************************************)
(* client.post: it raises (no connection, a timeout), or it gives a        *)
(* response with a status code and a body; json is what response.json()    *)
(* gives, None when the body is not JSON and response.json() raises.       *)
(***************************************************************************)
PostRaised == [raised |-> TRUE, status_code |-> 0, json |-> None]

HttpResponse(status_code, json) == [raised |-> FALSE, status_code |-> status_code, json |-> json]

RiskOutcomes ==
    {PostRaised,
     HttpResponse(200, Some([risk_level |-> "high",
                             recommended_interest_rate |-> Divide(95, 10)])),
     HttpResponse(200, None),
     HttpResponse(503, Some([detail |-> "unavailable"]))}

ComplianceOutcomes ==
    {PostRaised,
     HttpResponse(200, Some([status |-> "fail"])),
     HttpResponse(200, Some([status |-> "review_required"])),
     HttpResponse(500, None)}

\* data = response.json() if response.status_code == 200 else data, inside
\* try: ... except: pass
AfterPost(data, outcome) ==
    IF outcome.raised THEN data
    ELSE IF outcome.status_code = 200
         THEN IF outcome.json = None THEN data ELSE outcome.json[1]
         ELSE data

(***************************************************************************)
(* The prompt: f"Loan for {name}: ${annual_income:,.0f} income,            *)
(* ${loan_request_amount:,.0f} request".                                   *)
(***************************************************************************)
ThreeDigits(n) ==
    IF n < 10 THEN "00" \o ToString(n)
    ELSE IF n < 100 THEN "0" \o ToString(n)
    ELSE ToString(n)

\* format(n, ",.0f") of a whole number
RECURSIVE Commas(_)
Commas(n) ==
    IF n < 1000 THEN ToString(n)
    ELSE Commas(n \div 1000) \o "," \o ThreeDigits(n % 1000)

LoanPrompt(customer) ==
    "Loan for " \o customer.name \o ": $" \o Commas(customer.annual_income)
        \o " income, $" \o Commas(customer.loan_request_amount) \o " request"

(***************************************************************************)
(* agent.run(prompt) raises, or gives a response: a str, or an object of   *)
(* the agent library that is not a str (re.search then raises TypeError).  *)
(***************************************************************************)
OfficerTexts ==
    {"I approve.",
     "{\"approved\": false}",
     "Decision: {\"approved\": true, \"loan_amount\": 30000, \"interest_rate\": 7}\nThanks",
     "{approved}",
     "{} or {}",
     "} then {",
     "{}"}

OfficerOutcomes ==
    {[kind |-> "raises", text |-> ""],
     [kind |-> "object", text |-> "{\"approved\": false}"]}
        \cup {[kind |-> "str", text |-> t] : t \in OfficerTexts}

\* text.rfind(sub) + 1: the last place of sub in text, 0 when there is none
LastIndexOf(sub, text) ==
    LET at == {i \in 1..(Len(text) - Len(sub) + 1) : SubSeq(text, i, i + Len(sub) - 1) = sub}
    IN  IF at = {} THEN 0 ELSE CHOOSE i \in at : \A j \in at : i >= j

\* re.search(r'\{.*\}', text, re.DOTALL): from the first "{" to the last "}"
\* after it, None without such a pair
ReSearch(text) ==
    LET first == IndexOf("{", text)
        last  == LastIndexOf("}", text)
    IN  IF first = 0 \/ last < first THEN None ELSE Some(SubSeq(text, first, last))

\* json.loads of the matches the texts above give: the object, or None when it raises
JsonLoads(s) ==
    IF s = "{}" THEN Some(EmptyDict)
    ELSE IF s = "{\"approved\": false}" THEN Some([approved |-> FALSE])
    ELSE IF s = "{\"approved\": true, \"loan_amount\": 30000, \"interest_rate\": 7}"
         THEN Some([approved |-> TRUE, loan_amount |-> Divide(30000, 1),
                    interest_rate |-> Divide(7, 1)])
    ELSE None

FallbackDecision(customer) ==
    [approved      |-> TRUE,
     loan_amount   |-> Divide(customer.loan_request_amount * 8, 10),
     interest_rate |-> Divide(65, 10)]

\* lines 87-91
ParseDecision(customer, response) ==
    IF response.kind # "str" THEN FallbackDecision(customer)
    ELSE LET match == ReSearch(response.text)
         IN  IF match = None THEN FallbackDecision(customer)
             ELSE IF JsonLoads(match[1]) = None THEN FallbackDecision(customer)
             ELSE JsonLoads(match[1])[1]

AssessRisk(r) ==
    /\ loanPc[r] = "risk"
    /\ \E outcome \in RiskOutcomes :
           /\ riskReply' = [riskReply EXCEPT ![r] = Some(outcome)]
           /\ risk_data' = [risk_data EXCEPT ![r] = Some(AfterPost(DefaultRiskData, outcome))]
    /\ loanPc' = [loanPc EXCEPT ![r] = "compliance"]
    /\ UNCHANGED <<loanCustomer, loanModel, complianceReply, compliance_data, loanPrompt,
                   loanReturn, loanRaised>>

CheckCompliance(r) ==
    /\ loanPc[r] = "compliance"
    /\ \E outcome \in ComplianceOutcomes :
           /\ complianceReply' = [complianceReply EXCEPT ![r] = Some(outcome)]
           /\ compliance_data' =
                  [compliance_data EXCEPT ![r] = Some(AfterPost(DefaultComplianceData, outcome))]
    /\ loanPc' = [loanPc EXCEPT ![r] = "officer"]
    /\ UNCHANGED <<loanCustomer, loanModel, riskReply, risk_data, loanPrompt, loanReturn,
                   loanRaised>>

RunLoanOfficer(r) ==
    /\ loanPc[r] = "officer"
    /\ loanPrompt' = [loanPrompt EXCEPT ![r] = Some(LoanPrompt(loanCustomer[1]))]
    /\ IF loanModel[1].kind = "raises"
       THEN /\ loanPc' = [loanPc EXCEPT ![r] = "raised"]
            /\ loanRaised' = [loanRaised EXCEPT ![r] = Some("Exception")]
       ELSE /\ loanPc' = [loanPc EXCEPT ![r] = "parse"]
            /\ UNCHANGED loanRaised
    /\ UNCHANGED <<loanCustomer, loanModel, riskReply, complianceReply, risk_data,
                   compliance_data, loanReturn>>

\* variant: a customer who failed the compliance check is refused
ReturnDecisionUnlessFailed(r) ==
    /\ loanPc[r] = "parse"
    /\ loanReturn' =
           [loanReturn EXCEPT ![r] =
                IF Get(compliance_data[r][1], "status", "pass") = "fail"
                THEN Some([approved |-> FALSE])
                ELSE Some(ParseDecision(loanCustomer[1], loanModel[1]))]
    /\ loanPc' = [loanPc EXCEPT ![r] = "returned"]
    /\ UNCHANGED <<loanCustomer, loanModel, riskReply, complianceReply, risk_data,
                   compliance_data, loanPrompt, loanRaised>>

ReturnDecision(r) ==
    /\ loanPc[r] = "parse"
    /\ loanReturn' = [loanReturn EXCEPT ![r] = Some(ParseDecision(loanCustomer[1], loanModel[1]))]
    /\ loanPc' = [loanPc EXCEPT ![r] = "returned"]
    /\ UNCHANGED <<loanCustomer, loanModel, riskReply, complianceReply, risk_data,
                   compliance_data, loanPrompt, loanRaised>>

InitLoan ==
    /\ FeedbackLoopNotRun
    /\ CalculateNotCalled
    /\ RoutineNotStarted
    /\ TravelNotStarted
    /\ MemoryNotUsed
    /\ ComplianceNotAsked
    /\ FanoutNotStarted
    /\ loanCustomer \in {Some(c) : c \in Customers}
    /\ loanModel \in {Some(o) : o \in OfficerOutcomes}
    /\ loanPc = [r \in LoanRuns |-> "risk"]
    /\ riskReply = [r \in LoanRuns |-> None]
    /\ complianceReply = [r \in LoanRuns |-> None]
    /\ risk_data = [r \in LoanRuns |-> None]
    /\ compliance_data = [r \in LoanRuns |-> None]
    /\ loanPrompt = [r \in LoanRuns |-> None]
    /\ loanReturn = [r \in LoanRuns |-> None]
    /\ loanRaised = [r \in LoanRuns |-> None]

LoanStep(A) ==
    A /\ UNCHANGED <<storeVars, agentVars, policyVars, calcVars, routineVars, travelVars,
                     memoryVars, complianceVars, fanVars>>

NextLoan ==
    \/ \E r \in LoanRuns : LoanStep(AssessRisk(r))
    \/ \E r \in LoanRuns : LoanStep(CheckCompliance(r))
    \/ \E r \in LoanRuns : LoanStep(RunLoanOfficer(r))
    \/ \E r \in LoanRuns : LoanStep(ReturnDecision(r))

\* a call of process_customer that has started runs on until it is over
SpecLoan == InitLoan /\ [][NextLoan]_vars /\ WF_vars(NextLoan)

LoanOver(r) == loanPc[r] \in {"returned", "raised"}

ServiceFailed(posted) ==
    posted # None /\ (posted[1].raised \/ posted[1].status_code # 200 \/ posted[1].json = None)

(***************************************************************************)
(* C29: two calls of process_customer with the same customer and the same  *)
(* response of the agent end the same way, with the same decision,         *)
(* whatever the risk and compliance services answered or however they      *)
(* failed; no exception leaves a call unless agent.run raised it, and      *)
(* every call comes to its end.                                            *)
(***************************************************************************)
C29_DecisionIgnoresServices ==
    /\ [](\A r1 \in LoanRuns, r2 \in LoanRuns :
              /\ (LoanOver(r1) /\ LoanOver(r2)) =>
                     /\ loanReturn[r1] = loanReturn[r2]
                     /\ loanRaised[r1] = loanRaised[r2]
                     /\ loanPc[r1] = loanPc[r2]
              /\ (loanPrompt[r1] # None /\ loanPrompt[r2] # None) =>
                     loanPrompt[r1] = loanPrompt[r2]
              /\ loanRaised[r1] # None => loanModel[1].kind = "raises"
              /\ loanPc[r1] = "returned" => loanReturn[r1] # None)
    /\ <>(\A r \in LoanRuns : LoanOver(r))

\* r1 found the risk service unreachable and the compliance service failing the
\* customer, r2 found a high risk and a compliance service in error; the agent
\* refused, and both calls returned its refusal
C29_Witness ==
    /\ loanModel = Some([kind |-> "str", text |-> "{\"approved\": false}"])
    /\ riskReply["r1"] = Some(PostRaised)
    /\ complianceReply["r1"] # None /\ compliance_data["r1"] = Some([status |-> "fail"])
    /\ riskReply["r2"] # None /\ risk_data["r2"] # Some(DefaultRiskData)
    /\ ServiceFailed(complianceReply["r2"])
    /\ loanReturn["r1"] = Some([approved |-> FALSE])
    /\ loanReturn["r2"] = Some([approved |-> FALSE])

(***************************************************************************)
(* simple_workflow_viz.py, the fan-out/fan-in workflow: the dispatcher     *)
(* sends the task to the researcher, the marketer and the legal executor,  *)
(* and each of them sends it on to the aggregator.  Every message carries  *)
(* the one Task object main() created, so a message is known by its        *)
(* sender.  A handler runs when a message waits for its executor; the      *)
(* order in which waiting messages are handled is not fixed here, which    *)
(* includes the round-by-round order of the workflow library.              *)
(***************************************************************************)
Executors == {"dispatcher", "researcher", "marketer", "legal", "aggregator"}

Branches == {"researcher", "marketer", "legal"}

\* create_fanout_workflow: the edges
Edges ==
    {<<"dispatcher", "researcher">>, <<"dispatcher", "marketer">>, <<"dispatcher", "legal">>,
     <<"researcher", "aggregator">>, <<"marketer", "aggregator">>, <<"legal", "aggregator">>}

\* Task(id=..., content=...) with the defaults of the dataclass
Task(id, content) ==
    [id        |-> id,
     content   |-> content,
     research  |-> None,
     marketing |-> None,
     legal     |-> None,
     is_spam   |-> FALSE,
     result    |-> None]

TaskContents == {"Launch AI chatbot", "Meeting at 3pm", "SPAM: Free money!"}

\* an Optional[str] in a condition
Truthy(text) == text # None /\ text[1] # ""

\* what the analyze handler of a branch assigns
Analyzed(task, e) ==
    IF e = "researcher" THEN [task EXCEPT !.research = Some("Tech feasibility confirmed")]
    ELSE IF e = "marketer" THEN [task EXCEPT !.marketing = Some("High market demand")]
    ELSE [task EXCEPT !.legal = Some("Compliant with regulations")]

\* str() of an Optional[str] in an f-string
Shown(text) == IF text = None THEN "None" ELSE text[1]

ResultText(task) ==
    "Research: " \o Shown(task.research) \o "\nMarketing: " \o Shown(task.marketing)
        \o "\nLegal: " \o Shown(task.legal)

\* variant: the result written without looking at the analyses
CombinedUnguarded(task) == [task EXCEPT !.result = Some(ResultText(task))]

\* AggregatorExecutor.combine, lines 69-70
Combined(task) ==
    IF Truthy(task.research) /\ Truthy(task.marketing) /\ Truthy(task.legal)
    THEN [task EXCEPT !.result = Some(ResultText(task))]
    ELSE task

\* ctx.send_message(task) of executor e: one message for the target of each edge from e
SentBy(inbox, e) ==
    [t \in Executors |-> IF <<e, t>> \in Edges THEN Append(inbox[t], e) ELSE inbox[t]]

\* the waiting messages of executor e without the i-th
Taken(inbox, e, i) ==
    [inbox EXCEPT ![e] = SubSeq(inbox[e], 1, i - 1) \o SubSeq(inbox[e], i + 1, Len(inbox[e]))]

Dispatch ==
    /\ fanInbox[1]["dispatcher"] # <<>>
    /\ fanInbox' = Some(SentBy(Taken(fanInbox[1], "dispatcher", 1), "dispatcher"))
    /\ UNCHANGED <<fanTask, fanHandling>>

\* analyze up to its await: the message is taken and the field assigned
Analyze(e) ==
    /\ e \notin fanHandling
    /\ fanInbox[1][e] # <<>>
    /\ fanInbox' = Some(Taken(fanInbox[1], e, 1))
    /\ fanTask' = Some(Analyzed(fanTask[1], e))
    /\ fanHandling' = fanHandling \cup {e}

\* combine up to its await, for any of the waiting messages
Combine ==
    /\ "aggregator" \notin fanHandling
    /\ \E i \in 1..Len(fanInbox[1]["aggregator"]) :
           fanInbox' = Some(Taken(fanInbox[1], "aggregator", i))
    /\ fanTask' = Some(Combined(fanTask[1]))
    /\ fanHandling' = fanHandling \cup {"aggregator"}

\* the await ctx.send_message(task) that ends analyze and combine
SendOn(e) ==
    /\ e \in fanHandling
    /\ fanInbox' = Some(SentBy(fanInbox[1], e))
    /\ fanHandling' = fanHandling \ {e}
    /\ UNCHANGED fanTask

\* main(): workflow1.run_stream(task) gives the task to the start executor
InitFanout ==
    /\ FeedbackLoopNotRun
    /\ CalculateNotCalled
    /\ RoutineNotStarted
    /\ TravelNotStarted
    /\ MemoryNotUsed
    /\ ComplianceNotAsked
    /\ LoanNotStarted
    /\ fanTask \in {Some(Task("T1", content)) : content \in TaskContents}
    /\ fanInbox = Some([e \in Executors |-> IF e = "dispatcher" THEN <<"run_stream">> ELSE <<>>])
    /\ fanHandling = {}

FanoutStep(A) ==
    A /\ UNCHANGED <<storeVars, agentVars, policyVars, calcVars, routineVars, travelVars,
                     memoryVars, complianceVars, loanVars>>

NextFanout ==
    \/ FanoutStep(Dispatch)
    \/ \E e \in Branches : FanoutStep(Analyze(e))
    \/ FanoutStep(Combine)
    \/ \E e \in Branches \cup {"aggregator"} : FanoutStep(SendOn(e))

SpecFanout == InitFanout /\ [][NextFanout]_vars

\* no message waits and no handler is running
FanoutCompleted ==
    /\ \A e \in Executors : fanInbox[1][e] = <<>>
    /\ fanHandling = {}

AllAnalysed(task) == task.research # None /\ task.marketing # None /\ task.legal # None

(***************************************************************************)
(* C30: in whatever order the three branches and the aggregator run, the   *)
(* aggregator writes task.result only when the three analyses are present, *)
(* a result once written is the text made of the three analyses, and when  *)
(* the workflow has completed task.result is that text.                    *)
(***************************************************************************)
C30_ResultCombinesAll ==
    /\ [](/\ fanTask[1].result # None =>
                 /\ AllAnalysed(fanTask[1])
                 /\ fanTask[1].result =
                        Some("Research: Tech feasibility confirmed\nMarketing: High market demand\nLegal: Compliant with regulations")
          /\ FanoutCompleted => fanTask[1].result # None)
    /\ [][fanTask'[1].result # fanTask[1].result => AllAnalysed(fanTask[1])]_vars

\* the workflow has completed with the combined result
C30_Witness ==
    /\ FanoutCompleted
    /\ fanTask[1].content = "Launch AI chatbot"
    /\ fanTask[1].result =
           Some("Research: Tech feasibility confirmed\nMarketing: High market demand\nLegal: Compliant with regulations")

\* the aggregator has handled the researcher's message while the legal analysis was
\* missing, and has left the result unset
C30_EarlyCombine ==
    /\ fanTask[1].research # None
    /\ fanTask[1].legal = None
    /\ "researcher" \notin fanHandling
    /\ "aggregator" \in fanHandling
    /\ fanTask[1].result = None

====
